---- MODULE Spec2Model ----
(***************************************************************************)
(* Model of the guide pipeline of the vibe-coding-rules site:              *)
(*   scripts build step  : parseFrontmatter, guide assembly, and the run   *)
(*                         of buildGuidesData that writes guides.json      *)
(*   scripts server      : the request handler of the local file server    *)
(*   docs/app.js         : buildMdcContent (copy / save), parseMarkdown,   *)
(*                         the start-up of the page, the guide modal and   *)
(*                         the copy buttons                                *)
(* Text is modelled as a sequence of one-character strings, so that every  *)
(* slice, trim, split and pattern substitution acts on characters as the   *)
(* JavaScript does.                                                        *)
(***************************************************************************)
EXTENDS Integers, Sequences, FiniteSets, TLC

VARIABLES
  content,      \* the raw text of the .mdc file handed to parseFrontmatter
  pc,           \* position in the pipeline
  lines,        \* parseFrontmatter: the header block split into lines
  idx,          \* parseFrontmatter: index of the next line of the for loop
  currentKey,   \* parseFrontmatter: let currentKey
  frontmatter,  \* parseFrontmatter: const frontmatter
  body,         \* parseFrontmatter: const body
  guide,        \* the guide record of the snapshot
  mdc,          \* result of buildMdcContent(currentGuide)
  reparsed,     \* parseFrontmatter applied to the copied / saved text
  html,         \* result of parseMarkdown(guide.content)
  dirs,         \* the rule directory and README of every stack, on disk
  bpc,          \* position of the run of buildGuidesData
  stackIndex,   \* buildGuidesData: index of the stack of the for loop
  files,        \* buildGuidesData: const files, the last directory listing
  stacksData,   \* buildGuidesData: const stacksData
  output,       \* buildGuidesData: const output
  guidesJson,   \* the file docs/data/guides.json, on disk
  before,       \* guides.json as it was when the run started
  runs,         \* number of runs started; the clock read by new Date()
  disk,         \* the files and directories the server can reach
  request,      \* server: the request handed to the handler last
  response,     \* server: what the handler sent for it
  server,       \* server: the process is starting, listening or crashed
  handled,      \* server: number of requests handed to the handler
  upc,          \* page: position of the start-up (init, then loadStacks)
  guidesData,   \* page: window.guidesData
  cards,        \* page: what the stacks grid shows
  currentGuide, \* page: let currentGuide
  currentStack, \* page: let currentStack
  modal,        \* page: the guide modal, its title, content and footer
  buttons,      \* page: innerHTML and class of the two copy buttons
  copies,       \* page: clipboard writes awaited by copyGuideContent
  timers,       \* page: pending timers of showButtonSuccess, oldest first
  clicks,       \* page: number of clicks on a copy button
  download,     \* page: the file name handed to the browser by saveGuideFile
  lastCall      \* page: the last call of showGuide or showStackOverview

pageVars == <<content, pc, lines, idx, currentKey, frontmatter, body, guide, mdc,
              reparsed, html>>

buildVars ==
  <<dirs, bpc, stackIndex, files, stacksData, output, guidesJson, before, runs>>

serverVars == <<disk, request, response, server, handled>>

uiVars == <<upc, guidesData, cards, currentGuide, currentStack, modal, buttons,
            copies, timers, clicks, download, lastCall>>

vars == <<pageVars, buildVars, serverVars, uiVars>>

\* what the actions of one part of the program leave alone
notPageVars == <<buildVars, serverVars, uiVars>>

notBuildVars == <<pageVars, serverVars, uiVars>>

notServerVars == <<pageVars, buildVars, uiVars>>

notUiVars == <<pageVars, buildVars, serverVars>>

(***************************************************************************)
(* Characters and the String.prototype methods the code uses.              *)
(* Positions are 1-based; IndexOf answers 0 where JavaScript answers -1.   *)
(***************************************************************************)
NL == "\n"
CR == "\r"
TAB == "\t"
DQ == "\""
SQ == "'"
\* the character U+0060, which a TLA+ string literal cannot hold
Backtick == "backtick"

IsSpace(c) == c \in {" ", NL, CR, TAB}

IsQuote(c) == c \in {DQ, SQ}

MinOf(S) == CHOOSE i \in S : \A j \in S : i <= j

MaxOf(S) == CHOOSE i \in S : \A j \in S : i >= j

StartsWithAt(s, p, i) ==
  /\ i >= 1
  /\ i + Len(p) - 1 <= Len(s)
  /\ \A k \in 1..Len(p) : s[i + k - 1] = p[k]

StartsWith(s, p) == StartsWithAt(s, p, 1)

IndexOf(s, p, from) ==
  LET M == {i \in from..(Len(s) - Len(p) + 1) : StartsWithAt(s, p, i)}
  IN IF M = {} THEN 0 ELSE MinOf(M)

SliceFrom(s, i) == SubSeq(s, i, Len(s))

TrimStart(s) ==
  LET N == {i \in 1..Len(s) : ~IsSpace(s[i])}
  IN IF N = {} THEN <<>> ELSE SubSeq(s, MinOf(N), Len(s))

TrimEnd(s) ==
  LET N == {i \in 1..Len(s) : ~IsSpace(s[i])}
  IN IF N = {} THEN <<>> ELSE SubSeq(s, 1, MaxOf(N))

Trim(s) == TrimEnd(TrimStart(s))

\* s.split(/\r?\n/)
RECURSIVE SplitLines(_)
SplitLines(s) ==
  LET i == IndexOf(s, <<NL>>, 1)
  IN IF i = 0 THEN <<s>>
     ELSE LET e == IF i > 1 /\ s[i - 1] = CR THEN i - 2 ELSE i - 1
          IN <<SubSeq(s, 1, e)>> \o SplitLines(SliceFrom(s, i + 1))

\* s.replace(/^["']|["']$/g, ""): a quote character at the start is removed,
\* and a quote character at the end is removed, each independently of the other
StripQuotes(s) ==
  LET a == IF Len(s) > 0 /\ IsQuote(s[1]) THEN Tail(s) ELSE s
  IN IF Len(a) > 0 /\ IsQuote(a[Len(a)]) THEN SubSeq(a, 1, Len(a) - 1) ELSE a

RECURSIVE Join(_, _)
Join(ss, sep) ==
  IF ss = <<>> THEN <<>>
  ELSE IF Len(ss) = 1 THEN ss[1]
  ELSE ss[1] \o sep \o Join(Tail(ss), sep)

(***************************************************************************)
(* Header values: a string, a boolean or a list of strings.                *)
(***************************************************************************)
StrVal(s) == [t |-> "str", s |-> s, b |-> FALSE, l |-> <<>>]

BoolVal(b) == [t |-> "bool", s |-> <<>>, b |-> b, l |-> <<>>]

ListVal(l) == [t |-> "list", s |-> <<>>, b |-> FALSE, l |-> l]

EmptyMap == <<>>

Put(m, k, v) == [x \in (DOMAIN m) \cup {k} |-> IF x = k THEN v ELSE m[x]]

Has(m, k) == k \in DOMAIN m

\* let currentKey = null, or a key
NullKey == [null |-> TRUE, key |-> <<>>]

KeyOf(k) == [null |-> FALSE, key |-> k]

\* if (currentKey): null and the empty string are falsy
TruthyKey(ck) == ~ck.null /\ ck.key # <<>>

TrueStr == <<"t", "r", "u", "e">>

FalseStr == <<"f", "a", "l", "s", "e">>

Delim == <<"-", "-", "-">>

NlDelim == <<"\n", "-", "-", "-">>

(***************************************************************************)
(* parseFrontmatter                                                        *)
(***************************************************************************)
\* content.startsWith("---") and content.indexOf("\n---", 3) !== -1
EndIndex(text) == IndexOf(text, NlDelim, 4)

\* HasHeader without the test of the opening delimiter (lines 69-71 dropped)
HasHeader_NoOpeningCheck(text) == EndIndex(text) # 0

HasHeader(text) == StartsWith(text, Delim) /\ EndIndex(text) # 0

\* content.slice(3, endIndex).trim()
FmText(text) == Trim(SubSeq(text, 4, EndIndex(text) - 1))

\* content.slice(endIndex + 4).trimStart()
BodyOf(text) == TrimStart(SliceFrom(text, EndIndex(text) + 4))

\* list item: the value pushed on frontmatter[currentKey]
ItemValue(line) == StripQuotes(Trim(Tail(Trim(line))))

\* key line: const key, const value
KeyOfLine(line) == Trim(SubSeq(line, 1, IndexOf(line, <<":">>, 1) - 1))

ValueOfLine(line) == StripQuotes(Trim(SliceFrom(line, IndexOf(line, <<":">>, 1) + 1)))

\* value === "true" ? true : value === "false" ? false : value
Scalar(value) ==
  IF value = TrueStr THEN BoolVal(TRUE)
  ELSE IF value = FalseStr THEN BoolVal(FALSE)
  ELSE StrVal(value)

\* ParseLine without the reset of currentKey on a scalar line (line 114 dropped)
ParseLine_NoReset(st, line) ==
  IF Trim(line) = <<>> THEN st
  ELSE IF Trim(line)[1] = "-"
  THEN IF TruthyKey(st.currentKey)
       THEN LET k == st.currentKey.key
                old == IF Has(st.fm, k) /\ st.fm[k].t = "list"
                       THEN st.fm[k].l ELSE <<>>
            IN [st EXCEPT !.fm = Put(st.fm, k, ListVal(Append(old, ItemValue(line))))]
       ELSE st
  ELSE IF IndexOf(line, <<":">>, 1) = 0 THEN st
  ELSE IF ValueOfLine(line) # <<>>
  THEN [fm |-> Put(st.fm, KeyOfLine(line), Scalar(ValueOfLine(line))),
        currentKey |-> st.currentKey]
  ELSE [fm |-> Put(st.fm, KeyOfLine(line), ListVal(<<>>)),
        currentKey |-> KeyOf(KeyOfLine(line))]

\* one iteration of: for (const line of lines)
ParseLine(st, line) ==
  IF Trim(line) = <<>> THEN st
  ELSE IF Trim(line)[1] = "-"
  THEN IF TruthyKey(st.currentKey)
       THEN LET k == st.currentKey.key
                old == IF Has(st.fm, k) /\ st.fm[k].t = "list"
                       THEN st.fm[k].l ELSE <<>>
            IN [st EXCEPT !.fm = Put(st.fm, k, ListVal(Append(old, ItemValue(line))))]
       ELSE st
  ELSE IF IndexOf(line, <<":">>, 1) = 0 THEN st
  ELSE IF ValueOfLine(line) # <<>>
  THEN [fm |-> Put(st.fm, KeyOfLine(line), Scalar(ValueOfLine(line))),
        currentKey |-> NullKey]
  ELSE [fm |-> Put(st.fm, KeyOfLine(line), ListVal(<<>>)),
        currentKey |-> KeyOf(KeyOfLine(line))]

RECURSIVE ParseLines(_, _)
ParseLines(st, ls) ==
  IF ls = <<>> THEN st ELSE ParseLines(ParseLine(st, Head(ls)), Tail(ls))

\* the whole function, as the browser-side round trip applies it
parseFrontmatter(text) ==
  IF ~HasHeader(text) THEN [frontmatter |-> EmptyMap, body |-> text]
  ELSE [frontmatter |->
          ParseLines([fm |-> EmptyMap, currentKey |-> NullKey],
                     SplitLines(FmText(text))).fm,
        body |-> BodyOf(text)]

(***************************************************************************)
(* Guide assembly (buildGuidesData) and buildMdcContent (copy / save).     *)
(***************************************************************************)
DescriptionKey == <<"d", "e", "s", "c", "r", "i", "p", "t", "i", "o", "n">>

GlobsKey == <<"g", "l", "o", "b", "s">>

AlwaysApplyKey == <<"a", "l", "w", "a", "y", "s", "A", "p", "p", "l", "y">>

\* frontmatter.alwaysApply === true || frontmatter.alwaysApply === "true"
AlwaysApplyOf(fm) ==
  /\ Has(fm, AlwaysApplyKey)
  /\ \/ fm[AlwaysApplyKey] = BoolVal(TRUE)
     \/ fm[AlwaysApplyKey] = StrVal(TrueStr)

\* JavaScript truthiness of a header value: a stored string is never empty,
\* an array is truthy even when empty
Truthy(v) == IF v.t = "bool" THEN v.b ELSE IF v.t = "str" THEN v.s # <<>> ELSE TRUE

\* frontmatter.globs || []
GlobsOf(fm) ==
  IF Has(fm, GlobsKey) /\ Truthy(fm[GlobsKey]) THEN fm[GlobsKey] ELSE ListVal(<<>>)

\* const guide = { ..., frontmatter, content: body, alwaysApply, globs }
MakeGuide(fm, b) ==
  [frontmatter |-> fm, content |-> b, alwaysApply |-> AlwaysApplyOf(fm),
   globs |-> GlobsOf(fm)]

\* `${value}` in a template literal
ToText(v) ==
  IF v.t = "bool" THEN (IF v.b THEN TrueStr ELSE FalseStr)
  ELSE IF v.t = "str" THEN v.s
  ELSE Join(v.l, <<",">>)

\* guide.globs.forEach((glob) => { content += `  - "${glob}"\n`; })
RECURSIVE GlobLines(_)
GlobLines(gs) ==
  IF gs = <<>> THEN <<>>
  ELSE <<" ", " ", "-", " ", "\"">> \o Head(gs) \o <<"\"", "\n">> \o GlobLines(Tail(gs))

\* guide.globs && guide.globs.length > 0, for the value kinds globs can have:
\* a string has a length but no forEach, a boolean has no length
GlobsNonEmpty(g) ==
  IF g.globs.t = "list" THEN Len(g.globs.l) > 0
  ELSE IF g.globs.t = "str" THEN Len(g.globs.s) > 0
  ELSE FALSE

\* showGuide throws a TypeError at guide.globs.join for a string
ShowGuideThrows(g) == GlobsNonEmpty(g) /\ g.globs.t # "list"

\* buildMdcContent throws a TypeError at guide.globs.forEach for a string
BuildMdcThrows(g) == GlobsNonEmpty(g) /\ g.globs.t # "list"

buildMdcContent(g) ==
  <<"-", "-", "-", "\n">>
  \o (IF Has(g.frontmatter, DescriptionKey) /\ Truthy(g.frontmatter[DescriptionKey])
      THEN <<"d", "e", "s", "c", "r", "i", "p", "t", "i", "o", "n", ":", " ", "\"">> \o ToText(g.frontmatter[DescriptionKey]) \o <<"\"", "\n">>
      ELSE <<>>)
  \o (IF GlobsNonEmpty(g) THEN <<"g", "l", "o", "b", "s", ":", "\n">> \o GlobLines(g.globs.l) ELSE <<>>)
  \o <<"a", "l", "w", "a", "y", "s", "A", "p", "p", "l", "y", ":", " ">> \o (IF g.alwaysApply THEN TrueStr ELSE FalseStr) \o <<NL>>
  \o <<"-", "-", "-", "\n", "\n">>
  \o g.content

(***************************************************************************)
(* parseMarkdown: an ordered sequence of global pattern substitutions,     *)
(* then block splitting, paragraph wrapping and clean-up.                  *)
(* A match is [end, out]: the position after the match and the text that   *)
(* replaces it; end = 0 is no match at that position.                      *)
(***************************************************************************)
NoMatch == [end |-> 0, out |-> <<>>]

\* line terminators: what "." does not match and "^" / "$" anchor on (flag m)
IsLT(c) == c \in {NL, CR}

Digits == {"0", "1", "2", "3", "4", "5", "6", "7", "8", "9"}

LowerLetters ==
  {"a", "b", "c", "d", "e", "f", "g", "h", "i", "j", "k", "l", "m",
   "n", "o", "p", "q", "r", "s", "t", "u", "v", "w", "x", "y", "z"}

UpperLetters ==
  {"A", "B", "C", "D", "E", "F", "G", "H", "I", "J", "K", "L", "M",
   "N", "O", "P", "Q", "R", "S", "T", "U", "V", "W", "X", "Y", "Z"}

\* \w
IsWord(c) == c \in LowerLetters \cup UpperLetters \cup Digits \cup {"_"}

LowerOf(c) ==
  CASE c = "H" -> "h" [] c = "P" -> "p" [] c = "R" -> "r" [] c = "E" -> "e"
    [] c = "U" -> "u" [] c = "L" -> "l" [] c = "O" -> "o" [] c = "B" -> "b"
    [] c = "C" -> "c" [] c = "K" -> "k" [] c = "Q" -> "q" [] c = "T" -> "t"
    [] c = "D" -> "d" [] c = "I" -> "i" [] c = "V" -> "v" [] OTHER -> c

AtLineStart(s, i) == i = 1 \/ IsLT(s[i - 1])

\* the position after the last character of the line that holds position i
LineEnd(s, i) ==
  LET N == {p \in i..Len(s) : IsLT(s[p])}
  IN IF N = {} THEN Len(s) + 1 ELSE MinOf(N)

\* the first position at or after i whose character is not in the class
WordRunEnd(s, i) ==
  LET N == {p \in i..Len(s) : ~IsWord(s[p])}
  IN IF N = {} THEN Len(s) + 1 ELSE MinOf(N)

DigitRunEnd(s, i) ==
  LET N == {p \in i..Len(s) : s[p] \notin Digits}
  IN IF N = {} THEN Len(s) + 1 ELSE MinOf(N)

SpaceRunEnd(s, i) ==
  LET N == {p \in i..Len(s) : ~IsSpace(s[p])}
  IN IF N = {} THEN Len(s) + 1 ELSE MinOf(N)

\* s.replace(/c/g, r) for a single character c
RECURSIVE ReplaceChar(_, _, _)
ReplaceChar(s, c, r) ==
  LET P == {p \in 1..Len(s) : s[p] = c}
  IN IF P = {} THEN s
     ELSE SubSeq(s, 1, MinOf(P) - 1) \o r \o ReplaceChar(SliceFrom(s, MinOf(P) + 1), c, r)

\* code.replace(/&/g, "&amp;").replace(/</g, "&lt;").replace(/>/g, "&gt;")
EscapeHtml(code) ==
  ReplaceChar(ReplaceChar(ReplaceChar(code, "&", <<"&", "a", "m", "p", ";">>), "<", <<"&", "l", "t", ";">>),
              ">", <<"&", "g", "t", ";">>)

Fence == <<Backtick, Backtick, Backtick>>

PreOpen == <<"<", "p", "r", "e", ">", "<", "c", "o", "d", "e", ">">>

PreClose == <<"<", "/", "c", "o", "d", "e", ">", "<", "/", "p", "r", "e", ">">>

\* /```(\w+)?\n([\s\S]*?)```/g
CodeBlockAt(s, i) ==
  IF ~StartsWithAt(s, Fence, i) THEN NoMatch
  ELSE LET k == WordRunEnd(s, i + 3)
       IN IF k > Len(s) \/ s[k] # NL THEN NoMatch
          ELSE LET q == IndexOf(s, Fence, k + 1)
               IN IF q = 0 THEN NoMatch
                  ELSE [end |-> q + 3,
                        out |-> PreOpen \o EscapeHtml(SubSeq(s, k + 1, q - 1))
                                \o PreClose]

\* /^PREFIX(.*$)/gim -> open $1 close   (headings, block quotes)
LinePrefixAt(prefix, open, close, s, i) ==
  IF AtLineStart(s, i) /\ StartsWithAt(s, prefix, i)
  THEN LET e == LineEnd(s, i + Len(prefix))
       IN [end |-> e, out |-> open \o SubSeq(s, i + Len(prefix), e - 1) \o close]
  ELSE NoMatch

\* /^---$/gim and /^\*\*\*$/gim
RuleAt(d, s, i) ==
  IF /\ AtLineStart(s, i)
     /\ StartsWithAt(s, d, i)
     /\ (i + Len(d) > Len(s) \/ IsLT(s[i + Len(d)]))
  THEN [end |-> i + Len(d), out |-> <<"<", "h", "r", ">">>]
  ELSE NoMatch

LiOpen == <<"<", "l", "i", ">">>

LiClose == <<"<", "/", "l", "i", ">">>

\* /^(\d+)\.\s+(.*$)/gim
OrderedItemAt(s, i) ==
  LET d == DigitRunEnd(s, i)
      w == SpaceRunEnd(s, d + 1)
      e == LineEnd(s, w)
  IN IF AtLineStart(s, i) /\ d > i /\ d <= Len(s) /\ s[d] = "." /\ w > d + 1
     THEN [end |-> e, out |-> LiOpen \o SubSeq(s, w, e - 1) \o LiClose]
     ELSE NoMatch

\* /^[-*+]\s+(.*$)/gim
UnorderedItemAt(s, i) ==
  LET w == SpaceRunEnd(s, i + 1)
      e == LineEnd(s, w)
  IN IF AtLineStart(s, i) /\ s[i] \in {"-", "*", "+"} /\ w > i + 1
     THEN [end |-> e, out |-> LiOpen \o SubSeq(s, w, e - 1) \o LiClose]
     ELSE NoMatch

\* one iteration of (<li>.*<\/li>\n?): the position after it, or 0
LiIterEnd(s, i) ==
  IF ~StartsWithAt(s, LiOpen, i) THEN 0
  ELSE LET e == LineEnd(s, i + 4)
           C == {q \in (i + 4)..(e - 1) : StartsWithAt(s, LiClose, q)}
       IN IF C = {} THEN 0
          ELSE IF MaxOf(C) + 5 <= Len(s) /\ s[MaxOf(C) + 5] = NL
               THEN MaxOf(C) + 6
               ELSE MaxOf(C) + 5

\* (<li>.*<\/li>\n?)+ : the position after the last iteration, or 0
RECURSIVE LiRunEnd(_, _)
LiRunEnd(s, i) ==
  LET e == LiIterEnd(s, i)
  IN IF e = 0 THEN 0
     ELSE LET n == LiRunEnd(s, e) IN IF n = 0 THEN e ELSE n

\* const isOrdered = /^\d+\./.test(match)
IsOrdered(match) ==
  LET d == DigitRunEnd(match, 1)
  IN d > 1 /\ d <= Len(match) /\ match[d] = "."

\* /(<li>.*<\/li>\n?)+/g
ListWrapAt(s, i) ==
  LET e == LiRunEnd(s, i)
  IN IF e = 0 THEN NoMatch
     ELSE [end |-> e,
           out |-> IF IsOrdered(SubSeq(s, i, e - 1))
                   THEN <<"<", "o", "l", ">">> \o SubSeq(s, i, e - 1) \o <<"<", "/", "o", "l", ">">>
                   ELSE <<"<", "u", "l", ">">> \o SubSeq(s, i, e - 1) \o <<"<", "/", "u", "l", ">">>]

\* /D(.*?)D/g -> open $1 close   (bold, italic)
SpanAt(d, open, close, s, i) ==
  IF ~StartsWithAt(s, d, i) THEN NoMatch
  ELSE LET e == LineEnd(s, i + Len(d))
           C == {q \in (i + Len(d))..(e - 1) : StartsWithAt(s, d, q)}
       IN IF C = {} THEN NoMatch
          ELSE [end |-> MinOf(C) + Len(d),
                out |-> open \o SubSeq(s, i + Len(d), MinOf(C) - 1) \o close]

\* /`([^`]+)`/g
InlineCodeAt(s, i) ==
  LET q == IndexOf(s, <<Backtick>>, i + 1)
  IN IF i <= Len(s) /\ s[i] = Backtick /\ q > i + 1
     THEN [end |-> q + 1,
           out |-> <<"<", "c", "o", "d", "e", ">">> \o SubSeq(s, i + 1, q - 1) \o <<"<", "/", "c", "o", "d", "e", ">">>]
     ELSE NoMatch

\* /\[([^\]]+)\]\(([^)]+)\)/g
LinkAt(s, i) ==
  LET q == IndexOf(s, <<"]">>, i + 1)
      r == IndexOf(s, <<")">>, q + 2)
  IN IF /\ s[i] = "["
        /\ q > i + 1
        /\ q + 1 <= Len(s) /\ s[q + 1] = "("
        /\ r > q + 2
     THEN [end |-> r + 1,
           out |-> <<"<", "a", " ", "h", "r", "e", "f", "=", "\"">> \o SubSeq(s, q + 2, r - 1)
                   \o <<"\"", " ", "t", "a", "r", "g", "e", "t", "=", "\"", "_", "b", "l", "a", "n", "k", "\"", " ", "r", "e", "l", "=", "\"", "n", "o", "o", "p", "e", "n", "e", "r", " ", "n", "o", "r", "e", "f", "e", "r", "r", "e", "r", "\"", ">">>
                   \o SubSeq(s, i + 1, q - 1) \o <<"<", "/", "a", ">">>]
     ELSE NoMatch

\* /!\[([^\]]*)\]\(([^)]+)\)/g
ImageAt(s, i) ==
  LET q == IndexOf(s, <<"]">>, i + 2)
      r == IndexOf(s, <<")">>, q + 2)
  IN IF /\ StartsWithAt(s, <<"!", "[">>, i)
        /\ q # 0
        /\ q + 1 <= Len(s) /\ s[q + 1] = "("
        /\ r > q + 2
     THEN [end |-> r + 1,
           out |-> <<"<", "i", "m", "g", " ", "s", "r", "c", "=", "\"">> \o SubSeq(s, q + 2, r - 1) \o <<"\"", " ", "a", "l", "t", "=", "\"">>
                   \o SubSeq(s, i + 2, q - 1) \o <<"\"", ">">>]
     ELSE NoMatch

\* html.replace(/<p><\/p>/g, "")
EmptyParagraphAt(s, i) ==
  IF StartsWithAt(s, <<"<", "p", ">", "<", "/", "p", ">">>, i) THEN [end |-> i + 7, out |-> <<>>] ELSE NoMatch

\* html.replace(/<p>(<[^>]+>)<\/p>/g, "$1")
LoneElementAt(s, i) ==
  LET g == IndexOf(s, <<">">>, i + 4)
  IN IF StartsWithAt(s, <<"<", "p", ">", "<">>, i) /\ g > i + 4 /\ StartsWithAt(s, <<"<", "/", "p", ">">>, g + 1)
     THEN [end |-> g + 5, out |-> SubSeq(s, i + 3, g)]
     ELSE NoMatch

\* the substitutions of parseMarkdown, in source order
InlineRules ==
  <<"code", "h6", "h5", "h4", "h3", "h2", "h1", "hrDash", "hrStar", "quote",
    "ordered", "unordered", "listWrap", "boldItalic", "bold", "boldUnderscore",
    "italic", "italicUnderscore", "inlineCode", "link", "image">>

CleanupRules == <<"emptyParagraph", "loneElement">>

MatchAt(rule, s, i) ==
  CASE rule = "code" -> CodeBlockAt(s, i)
    [] rule = "h6" -> LinePrefixAt(<<"#", "#", "#", "#", "#", "#", " ">>, <<"<", "h", "6", ">">>, <<"<", "/", "h", "6", ">">>, s, i)
    [] rule = "h5" -> LinePrefixAt(<<"#", "#", "#", "#", "#", " ">>, <<"<", "h", "5", ">">>, <<"<", "/", "h", "5", ">">>, s, i)
    [] rule = "h4" -> LinePrefixAt(<<"#", "#", "#", "#", " ">>, <<"<", "h", "4", ">">>, <<"<", "/", "h", "4", ">">>, s, i)
    [] rule = "h3" -> LinePrefixAt(<<"#", "#", "#", " ">>, <<"<", "h", "3", ">">>, <<"<", "/", "h", "3", ">">>, s, i)
    [] rule = "h2" -> LinePrefixAt(<<"#", "#", " ">>, <<"<", "h", "2", ">">>, <<"<", "/", "h", "2", ">">>, s, i)
    [] rule = "h1" -> LinePrefixAt(<<"#", " ">>, <<"<", "h", "1", ">">>, <<"<", "/", "h", "1", ">">>, s, i)
    [] rule = "hrDash" -> RuleAt(<<"-", "-", "-">>, s, i)
    [] rule = "hrStar" -> RuleAt(<<"*", "*", "*">>, s, i)
    [] rule = "quote" ->
         LinePrefixAt(<<">", " ">>, <<"<", "b", "l", "o", "c", "k", "q", "u", "o", "t", "e", ">">>, <<"<", "/", "b", "l", "o", "c", "k", "q", "u", "o", "t", "e", ">">>, s, i)
    [] rule = "ordered" -> OrderedItemAt(s, i)
    [] rule = "unordered" -> UnorderedItemAt(s, i)
    [] rule = "listWrap" -> ListWrapAt(s, i)
    [] rule = "boldItalic" ->
         SpanAt(<<"*", "*", "*">>, <<"<", "s", "t", "r", "o", "n", "g", ">", "<", "e", "m", ">">>, <<"<", "/", "e", "m", ">", "<", "/", "s", "t", "r", "o", "n", "g", ">">>, s, i)
    [] rule = "bold" -> SpanAt(<<"*", "*">>, <<"<", "s", "t", "r", "o", "n", "g", ">">>, <<"<", "/", "s", "t", "r", "o", "n", "g", ">">>, s, i)
    [] rule = "boldUnderscore" -> SpanAt(<<"_", "_">>, <<"<", "s", "t", "r", "o", "n", "g", ">">>, <<"<", "/", "s", "t", "r", "o", "n", "g", ">">>, s, i)
    [] rule = "italic" -> SpanAt(<<"*">>, <<"<", "e", "m", ">">>, <<"<", "/", "e", "m", ">">>, s, i)
    [] rule = "italicUnderscore" -> SpanAt(<<"_">>, <<"<", "e", "m", ">">>, <<"<", "/", "e", "m", ">">>, s, i)
    [] rule = "inlineCode" -> InlineCodeAt(s, i)
    [] rule = "link" -> LinkAt(s, i)
    [] rule = "image" -> ImageAt(s, i)
    [] rule = "emptyParagraph" -> EmptyParagraphAt(s, i)
    [] rule = "loneElement" -> LoneElementAt(s, i)

\* String.prototype.replace with a global pattern: from position i, take the
\* leftmost position that matches, replace the match, continue after it
RECURSIVE ReplaceFrom(_, _, _)
ReplaceFrom(rule, s, i) ==
  LET P == {p \in i..Len(s) : MatchAt(rule, s, p).end # 0}
  IN IF P = {} THEN SliceFrom(s, i)
     ELSE SubSeq(s, i, MinOf(P) - 1) \o MatchAt(rule, s, MinOf(P)).out
          \o ReplaceFrom(rule, s, MatchAt(rule, s, MinOf(P)).end)

ReplaceAll(rule, s) == ReplaceFrom(rule, s, 1)

RECURSIVE ApplyRules(_, _)
ApplyRules(rules, s) ==
  IF rules = <<>> THEN s ELSE ApplyRules(Tail(rules), ReplaceAll(Head(rules), s))

\* html.split(/\n\n+/)
RECURSIVE SplitBlocks(_)
SplitBlocks(s) ==
  LET i == IndexOf(s, <<NL, NL>>, 1)
  IN IF i = 0 THEN <<s>>
     ELSE LET N == {p \in i..Len(s) : s[p] # NL}
              e == IF N = {} THEN Len(s) + 1 ELSE MinOf(N)
          IN <<SubSeq(s, 1, i - 1)>> \o SplitBlocks(SliceFrom(s, e))

BlockTags ==
  {<<"h", "1">>, <<"h", "2">>, <<"h", "3">>, <<"h", "4">>, <<"h", "5">>, <<"h", "6">>, <<"p", "r", "e">>, <<"u", "l">>, <<"o", "l">>,
   <<"b", "l", "o", "c", "k", "q", "u", "o", "t", "e">>, <<"h", "r">>, <<"d", "i", "v">>}

\* /^<(h[1-6]|pre|ul|ol|blockquote|hr|div)/i.test(block)
IsBlockElement(block) ==
  /\ Len(block) > 0
  /\ block[1] = "<"
  /\ \E tag \in BlockTags :
       /\ Len(block) >= 1 + Len(tag)
       /\ \A k \in 1..Len(tag) : LowerOf(block[1 + k]) = tag[k]

\* the callback of blocks.map
RenderBlock(b) ==
  IF Trim(b) = <<>> THEN <<>>
  ELSE IF IsBlockElement(Trim(b)) THEN Trim(b)
  ELSE <<"<", "p", ">">> \o ReplaceChar(Trim(b), NL, <<"<", "b", "r", ">">>) \o <<"<", "/", "p", ">">>

RECURSIVE RenderBlocks(_)
RenderBlocks(bs) ==
  IF bs = <<>> THEN <<>> ELSE <<RenderBlock(Head(bs))>> \o RenderBlocks(Tail(bs))

parseMarkdown(markdown) ==
  IF markdown = <<>> THEN <<>>
  ELSE ApplyRules(CleanupRules,
         Join(RenderBlocks(SplitBlocks(ApplyRules(InlineRules, markdown))), <<NL>>))


(***************************************************************************)
(* buildGuidesData: file names, titles, ids, the order of the guides.      *)
(***************************************************************************)
LowerSeq ==
  <<"a", "b", "c", "d", "e", "f", "g", "h", "i", "j", "k", "l", "m",
    "n", "o", "p", "q", "r", "s", "t", "u", "v", "w", "x", "y", "z">>

UpperSeq ==
  <<"A", "B", "C", "D", "E", "F", "G", "H", "I", "J", "K", "L", "M",
    "N", "O", "P", "Q", "R", "S", "T", "U", "V", "W", "X", "Y", "Z">>

\* the place of a letter in the alphabet, 0 for any other character
LetterIndex(c) ==
  IF \E i \in 1..26 : LowerSeq[i] = c \/ UpperSeq[i] = c
  THEN CHOOSE i \in 1..26 : LowerSeq[i] = c \/ UpperSeq[i] = c
  ELSE 0

\* toUpperCase / toLowerCase of one character
ToUpper(c) == IF LetterIndex(c) = 0 THEN c ELSE UpperSeq[LetterIndex(c)]

ToLower(c) == IF LetterIndex(c) = 0 THEN c ELSE LowerSeq[LetterIndex(c)]

toLowerCase(s) == [i \in 1..Len(s) |-> ToLower(s[i])]

MdcSuffix == <<".", "m", "d", "c">>

\* f.endsWith(".mdc")
EndsWithMdc(f) == Len(f) >= 4 /\ SubSeq(f, Len(f) - 3, Len(f)) = MdcSuffix

\* file.replace(/\.mdc$/i, "")
StripMdc(f) ==
  IF Len(f) >= 4 /\ toLowerCase(SubSeq(f, Len(f) - 3, Len(f))) = MdcSuffix
  THEN SubSeq(f, 1, Len(f) - 4)
  ELSE f

\* s.split(" ")
RECURSIVE SplitWords(_)
SplitWords(s) ==
  LET P == {p \in 1..Len(s) : s[p] = " "}
  IN IF P = {} THEN <<s>>
     ELSE <<SubSeq(s, 1, MinOf(P) - 1)>> \o SplitWords(SliceFrom(s, MinOf(P) + 1))

\* word.charAt(0).toUpperCase() + word.slice(1)
Capitalize(word) ==
  IF word = <<>> THEN <<>> ELSE <<ToUpper(word[1])>> \o Tail(word)

titleize(fileName) ==
  LET spaced == ReplaceChar(ReplaceChar(StripMdc(fileName), "-", <<" ">>), "_", <<" ">>)
      words == SplitWords(spaced)
  IN Join([i \in 1..Len(words) |-> Capitalize(words[i])], <<" ">>)

IsSlugChar(c) == c \in LowerLetters \cup Digits

\* .replace(/[^a-z0-9]+/g, "-"): every run of other characters becomes one '-'
RECURSIVE DashRuns(_)
DashRuns(s) ==
  LET P == {p \in 1..Len(s) : ~IsSlugChar(s[p])}
  IN IF P = {} THEN s
     ELSE LET Q == {q \in MinOf(P)..Len(s) : IsSlugChar(s[q])}
              e == IF Q = {} THEN Len(s) + 1 ELSE MinOf(Q)
          IN SubSeq(s, 1, MinOf(P) - 1) \o <<"-">> \o DashRuns(SliceFrom(s, e))

\* .replace(/^-|-$/g, "")
StripDashes(s) ==
  LET a == IF s # <<>> /\ s[1] = "-" THEN Tail(s) ELSE s
  IN IF a # <<>> /\ a[Len(a)] = "-" THEN SubSeq(a, 1, Len(a) - 1) ELSE a

slugify(text) == StripDashes(DashRuns(toLowerCase(text)))

\* the primary weight of a character in the collation of localeCompare: white
\* space, then punctuation, then digits, then letters without regard to case
PrimaryWeight(c) ==
  IF c = " " THEN 1
  ELSE IF c \in Digits THEN 10 + (CHOOSE d \in 0..9 : ToString(d) = c)
  ELSE IF LetterIndex(c) # 0 THEN 20 + LetterIndex(c)
  ELSE 2

\* a.localeCompare(b): -1, 0 or 1; strings that differ only in case are
\* ordered by the first such difference, lower case first
localeCompare(a, b) ==
  LET n == MinOf({Len(a), Len(b)})
      D == {i \in 1..n : PrimaryWeight(a[i]) # PrimaryWeight(b[i])}
      T == {i \in 1..n : a[i] # b[i]}
  IN IF D # {}
     THEN (IF PrimaryWeight(a[MinOf(D)]) < PrimaryWeight(b[MinOf(D)]) THEN -1 ELSE 1)
     ELSE IF Len(a) # Len(b) THEN (IF Len(a) < Len(b) THEN -1 ELSE 1)
     ELSE IF T = {} THEN 0
     ELSE IF a[MinOf(T)] \in LowerLetters THEN -1 ELSE 1

ReadmeName == <<"R", "E", "A", "D", "M", "E", ".", "m", "d">>

\* the comparator of guides.sort
CompareGuides(a, b) ==
  IF a.fileName = ReadmeName THEN -1
  ELSE IF b.fileName = ReadmeName THEN 1
  ELSE localeCompare(a.title, b.title)

\* the guide goes after the last element it does not precede
InsertGuide(sorted, g) ==
  LET After == {i \in 1..Len(sorted) : CompareGuides(g, sorted[i]) >= 0}
      k == IF After = {} THEN 0 ELSE MaxOf(After)
  IN SubSeq(sorted, 1, k) \o <<g>> \o SubSeq(sorted, k + 1, Len(sorted))

RECURSIVE SortGuides(_)
\* guides.sort(...) leaving the guides in the order they were read
SortGuides_ReadOrder(gs) == gs

\* guides.sort(...): a stable sort, as an insertion sort
SortGuides(gs) ==
  IF gs = <<>> THEN <<>>
  ELSE InsertGuide(SortGuides(SubSeq(gs, 1, Len(gs) - 1)), gs[Len(gs)])

\* mdcFiles = files.filter((f) => f.endsWith(".mdc"))
RECURSIVE FilterMdc(_)
FilterMdc(names) ==
  IF names = <<>> THEN <<>>
  ELSE (IF EndsWithMdc(Head(names)) THEN <<Head(names)>> ELSE <<>>)
       \o FilterMdc(Tail(names))

\* the guide record built from a file name and the text of the file
GuideOf(file, text) ==
  LET parsed == parseFrontmatter(text)
  IN [id |-> slugify(StripMdc(file)),
      title |-> titleize(file),
      fileName |-> file,
      frontmatter |-> parsed.frontmatter,
      content |-> parsed.body,
      alwaysApply |-> AlwaysApplyOf(parsed.frontmatter),
      globs |-> GlobsOf(parsed.frontmatter)]

(***************************************************************************)
(* docs/app.js: looking up a stack or a guide by id                        *)
(***************************************************************************)

\* xs.find((x) => x.id === id): the place of the first element of xs with
\* that id, 0 when find returns undefined
FindById(xs, id) ==
  LET P == {p \in DOMAIN xs : xs[p].id = id}
  IN IF P = {} THEN 0 ELSE MinOf(P)

(***************************************************************************)
(* scripts server (part_003): the URL of a request, the path below the     *)
(* docs directory, the files on disk                                       *)
(***************************************************************************)

\* s.split(c) for a one-character separator
RECURSIVE SplitOn(_, _)
SplitOn(s, c) ==
  LET i == IndexOf(s, <<c>>, 1)
  IN IF i = 0 THEN <<s>>
     ELSE <<SubSeq(s, 1, i - 1)>> \o SplitOn(SliceFrom(s, i + 1), c)

\* the request target without its query and fragment
RawPath(url) ==
  LET P == {p \in DOMAIN url : url[p] \in {"?", "#"}}
  IN IF P = {} THEN url ELSE SubSeq(url, 1, MinOf(P) - 1)

\* the URL parser reads '\' as '/' in an http URL
Slashes(s) == [i \in DOMAIN s |-> IF s[i] = "\\" THEN "/" ELSE s[i]]

\* the URL parser's single-dot and double-dot path segments
SingleDot(seg) == toLowerCase(seg) \in {<<".">>, <<"%", "2", "e">>}

DoubleDot(seg) == toLowerCase(seg) \in {<<".", ".">>, <<".", "%", "2", "e">>, <<"%", "2", "e", ".">>, <<"%", "2", "e", "%", "2", "e">>}

RECURSIVE UrlSegments(_, _)
\* UrlSegments with the dot segments left in the path
UrlSegments_DotsKept(done, rest) == done \o rest

\* the path state of the URL parser: a double-dot segment removes the segment
\* before it, a single-dot segment is dropped, and either leaves an empty
\* segment when it is the last one
UrlSegments(done, rest) ==
  IF rest = <<>> THEN done
  ELSE LET seg == Head(rest)
           last == Len(rest) = 1
           popped == IF done = <<>> THEN done ELSE SubSeq(done, 1, Len(done) - 1)
       IN IF DoubleDot(seg)
          THEN UrlSegments(IF last THEN Append(popped, <<>>) ELSE popped, Tail(rest))
          ELSE IF SingleDot(seg)
          THEN UrlSegments(IF last THEN Append(done, <<>>) ELSE done, Tail(rest))
          ELSE UrlSegments(Append(done, seg), Tail(rest))

\* the pathname of a URL whose path is p ('' or a text starting with '/')
PathOf(p) ==
  IF p = <<>> THEN <<"/">>
  ELSE <<"/">> \o Join(UrlSegments(<<>>, SplitOn(SliceFrom(p, 2), "/")), <<"/">>)

\* a host the URL parser accepts: not empty, no forbidden host code point
ValidHost(h) == h # <<>> /\ \A i \in DOMAIN h : h[i] \notin {" ", "<", ">", "^", "|"}

\* s without the '/' characters at its start
DropSlashes(s) ==
  LET P == {p \in DOMAIN s : s[p] # "/"}
  IN IF P = {} THEN <<>> ELSE SliceFrom(s, MinOf(P))

\* new URL throws TypeError: Invalid URL
InvalidUrl == [ok |-> FALSE, pathname |-> <<>>]

\* new URL(req.url, `http://${req.headers.host}`).pathname
UrlPathname(url, host) ==
  LET u == Slashes(RawPath(url))
      rest == DropSlashes(u)
      slash == IndexOf(rest, <<"/">>, 1)
      authority == IF slash = 0 THEN rest ELSE SubSeq(rest, 1, slash - 1)
  IN IF ~ValidHost(host) THEN InvalidUrl
     ELSE IF StartsWith(u, <<"/", "/">>)
     THEN IF ~ValidHost(authority) THEN InvalidUrl
          ELSE [ok |-> TRUE,
                pathname |-> PathOf(IF slash = 0 THEN <<>> ELSE SliceFrom(rest, slash))]
     ELSE [ok |-> TRUE, pathname |-> PathOf(u)]

\* path.normalize on the segments of an absolute path
RECURSIVE NormalizeSegments(_, _)
NormalizeSegments(done, rest) ==
  IF rest = <<>> THEN done
  ELSE LET seg == Head(rest)
       IN IF seg = <<>> \/ seg = <<".">>
          THEN NormalizeSegments(done, Tail(rest))
          ELSE IF seg = <<".", ".">>
          THEN NormalizeSegments(IF done = <<>> THEN done
                                 ELSE SubSeq(done, 1, Len(done) - 1), Tail(rest))
          ELSE NormalizeSegments(Append(done, seg), Tail(rest))

\* path.join(a, b) for an absolute path a
join(a, b) ==
  LET joined == a \o <<"/">> \o b
      segs == NormalizeSegments(<<>>, SplitOn(joined, "/"))
  IN <<"/">> \o Join(segs, <<"/">>)
       \o (IF joined[Len(joined)] = "/" /\ segs # <<>> THEN <<"/">> ELSE <<>>)

\* path.extname: from the last '.' of the last segment, '' when there is
\* none or the segment starts with its only '.'
extname(path) ==
  LET segs == SplitOn(path, "/")
      base == segs[Len(segs)]
      P == {p \in 2..Len(base) : base[p] = "."}
  IN IF P = {} \/ base = <<".", ".">> THEN <<>> ELSE SliceFrom(base, MaxOf(P))

docsDir == <<"/", "r", "e", "p", "o", "/", "d", "o", "c", "s">>

MIME_TYPES ==
  [ext \in {<<".", "h", "t", "m", "l">>, <<".", "c", "s", "s">>, <<".", "j", "s">>, <<".", "j", "s", "o", "n">>, <<".", "p", "n", "g">>, <<".", "j", "p", "g">>,
            <<".", "s", "v", "g">>, <<".", "i", "c", "o">>} |->
     CASE ext = <<".", "h", "t", "m", "l">> -> "text/html"
       [] ext = <<".", "c", "s", "s">> -> "text/css"
       [] ext = <<".", "j", "s">> -> "application/javascript"
       [] ext = <<".", "j", "s", "o", "n">> -> "application/json"
       [] ext = <<".", "p", "n", "g">> -> "image/png"
       [] ext = <<".", "j", "p", "g">> -> "image/jpeg"
       [] ext = <<".", "s", "v", "g">> -> "image/svg+xml"
       [] ext = <<".", "i", "c", "o">> -> "image/x-icon"]

\* getMimeType without the default for an extension the table does not hold
getMimeType_NoDefault(path) ==
  IF extname(path) \in DOMAIN MIME_TYPES THEN MIME_TYPES[extname(path)] ELSE ""

getMimeType(path) ==
  IF extname(path) \in DOMAIN MIME_TYPES THEN MIME_TYPES[extname(path)]
  ELSE "text/plain"

\* an entry of the disk: a directory or a regular file; the bytes of a file
\* are named after the file, readable is the permission to read it
Dir(path) == [path |-> path, kind |-> "dir", readable |-> TRUE, bytes |-> <<>>]

File(path) == [path |-> path, kind |-> "file", readable |-> TRUE, bytes |-> path]

LockedFile(path) == [path |-> path, kind |-> "file", readable |-> FALSE, bytes |-> path]

\* a path without the '/' at its end
NoTrailingSlash(p) ==
  IF Len(p) > 1 /\ p[Len(p)] = "/" THEN SubSeq(p, 1, Len(p) - 1) ELSE p

\* the entries of disk d that path p names; a path that ends in '/' names
\* directories only
EntriesAt(d, p) ==
  {e \in d : /\ e.path = NoTrailingSlash(p)
             /\ (p[Len(p)] = "/" => e.kind = "dir")}

existsSync(d, p) == EntriesAt(d, p) # {}

\* statSync(p).isFile()
isFile(d, p) == \E e \in EntriesAt(d, p) : e.kind = "file"

\* readFileSync(p) throws (EACCES)
ReadThrows(d, p) == \E e \in EntriesAt(d, p) : ~e.readable

\* the return value null of serveFile
NullFile == [found |-> FALSE, content |-> <<>>, mimeType |-> ""]

serveFile(d, filePath) ==
  IF ~existsSync(d, filePath) THEN NullFile
  ELSE IF ~isFile(d, filePath) THEN NullFile
  ELSE IF ReadThrows(d, filePath) THEN NullFile
  ELSE [found |-> TRUE,
        content |-> (CHOOSE e \in EntriesAt(d, filePath) : TRUE).bytes,
        mimeType |-> getMimeType(filePath)]

NoResponse == [status |-> 0, contentType |-> "", cacheControl |-> "", body |-> <<>>]

\* the fallback page, which names the pathname of the request
NotFoundPage(pathname) == <<"4", "0", "4", " ">> \o pathname

\* the request handler: the response it sends, status 0 when new URL throws
\* and nothing is sent
Respond(d, req) ==
  LET parsed == UrlPathname(req.url, req.host)
      pathname == IF parsed.pathname = <<"/">> THEN <<"/", "i", "n", "d", "e", "x", ".", "h", "t", "m", "l">> ELSE parsed.pathname
      filePath == join(docsDir, pathname)
      file == serveFile(d, filePath)
  IN IF ~parsed.ok THEN NoResponse
     ELSE IF ~StartsWith(filePath, docsDir)
     THEN [status |-> 403, contentType |-> "text/plain", cacheControl |-> "",
           body |-> <<"F", "o", "r", "b", "i", "d", "d", "e", "n">>]
     ELSE IF ~file.found
     THEN [status |-> 404, contentType |-> "text/html", cacheControl |-> "",
           body |-> NotFoundPage(pathname)]
     ELSE [status |-> 200, contentType |-> file.mimeType,
           cacheControl |-> "no-cache", body |-> file.content]

(***************************************************************************)
(* The disk and the requests of the server model                           *)
(***************************************************************************)
MaxRequests == 2

\* the docs directory, a sibling directory whose name starts with 'docs', a
\* file of the repository outside docs, and a file outside the repository
SiteFiles ==
  {Dir(<<"/", "r", "e", "p", "o">>), Dir(<<"/", "r", "e", "p", "o", "/", "d", "o", "c", "s">>), File(<<"/", "r", "e", "p", "o", "/", "d", "o", "c", "s", "/", "a", "p", "p", ".", "j", "s">>),
   Dir(<<"/", "r", "e", "p", "o", "/", "d", "o", "c", "s", "/", "d", "a", "t", "a">>), File(<<"/", "r", "e", "p", "o", "/", "d", "o", "c", "s", "/", "d", "a", "t", "a", "/", "g", "u", "i", "d", "e", "s", ".", "j", "s", "o", "n">>),
   File(<<"/", "r", "e", "p", "o", "/", "d", "o", "c", "s", "/", "n", "o", "t", "e", "s">>), LockedFile(<<"/", "r", "e", "p", "o", "/", "d", "o", "c", "s", "/", "l", "o", "c", "k", "e", "d", ".", "c", "s", "s">>),
   Dir(<<"/", "r", "e", "p", "o", "/", "d", "o", "c", "s", "-", "o", "l", "d">>), File(<<"/", "r", "e", "p", "o", "/", "d", "o", "c", "s", "-", "o", "l", "d", "/", "x", ".", "h", "t", "m", "l">>),
   File(<<"/", "r", "e", "p", "o", "/", "s", "e", "c", "r", "e", "t", ".", "t", "x", "t">>), Dir(<<"/", "e", "t", "c">>), File(<<"/", "e", "t", "c", "/", "p", "a", "s", "s", "w", "d">>)}

\* the disk, with and without docs/index.html
Disks == {SiteFiles, SiteFiles \cup {File(<<"/", "r", "e", "p", "o", "/", "d", "o", "c", "s", "/", "i", "n", "d", "e", "x", ".", "h", "t", "m", "l">>)}}

Methods == {"GET", "POST"}

Targets ==
  {<<"/">>, <<"/", "i", "n", "d", "e", "x", ".", "h", "t", "m", "l">>, <<"/", "a", "p", "p", ".", "j", "s", "?", "v", "=", "1">>, <<"/", "d", "a", "t", "a", "/", "g", "u", "i", "d", "e", "s", ".", "j", "s", "o", "n">>, <<"/", "d", "a", "t", "a">>,
   <<"/", "d", "a", "t", "a", "/">>, <<"/", "n", "o", "t", "e", "s">>, <<"/", "l", "o", "c", "k", "e", "d", ".", "c", "s", "s">>, <<"/", "m", "i", "s", "s", "i", "n", "g", ".", "c", "s", "s">>, <<"/", "a", "p", "p", ".", "j", "s", "/">>,
   <<"/", ".", ".", "/", ".", ".", "/", "e", "t", "c", "/", "p", "a", "s", "s", "w", "d">>, <<"/", ".", ".", "/", "d", "o", "c", "s", "-", "o", "l", "d", "/", "x", ".", "h", "t", "m", "l">>, <<"/", "%", "2", "e", "%", "2", "e", "/", "s", "e", "c", "r", "e", "t", ".", "t", "x", "t">>,
   <<"/", "d", "a", "t", "a", "/", ".", ".", "/", "a", "p", "p", ".", "j", "s">>, <<"/", "/">>, <<"/", "/", "o", "t", "h", "e", "r", "/", "a", "p", "p", ".", "j", "s">>}

\* the Host header of the request: the server's address, a value with a space
Hosts == {<<"l", "o", "c", "a", "l", "h", "o", "s", "t", ":", "8", "0", "8", "0">>, <<"a", " ", "b">>}

Requests == [method : Methods, url : Targets, host : Hosts]

NoRequest == [method |-> "", url |-> <<>>, host |-> <<>>]

ServerNotStarted ==
  /\ disk = SiteFiles
  /\ request = NoRequest
  /\ response = NoResponse
  /\ server = "starting"
  /\ handled = 0
(***************************************************************************)
(* The documents the pipeline is run on.                                   *)
(***************************************************************************)
MaxLines == 3

\* header lines: list openers, list items, scalars (plain, with a quote at one
\* end only, boolean), a blank line, a line without a colon, a line with no key
HeaderLineSet ==
  {<<"g", "l", "o", "b", "s", ":">>, <<"k", ":">>, <<"-", " ", "a">>, <<" ", " ", "-", " ", "\"", "b", "\"">>, <<"k", ":", " ", "v">>, <<"k", ":", " ", "\"", "v">>,
   <<"a", "l", "w", "a", "y", "s", "A", "p", "p", "l", "y", ":", " ", "t", "r", "u", "e">>, <<>>, <<"x">>, <<":">>, <<"d", "e", "s", "c", "r", "i", "p", "t", "i", "o", "n", ":", " ", "d">>}

LineSeqs == UNION {[1..n -> HeaderLineSet] : n \in 0..MaxLines}

\* a delimited header of up to MaxLines lines, then a one-line body
HeaderDocs == {<<"-", "-", "-", "\n">> \o Join(ls, <<NL>>) \o <<"\n", "-", "-", "-", "\n", "B">> : ls \in LineSeqs}

Openers == {<<"-", "-", "-", "\n">>, <<>>, <<"\n", "-", "-", "-", "\n">>}

Closers == {<<"\n", "-", "-", "-", "\n">>, <<"\n", "-", "-", "-", "-", "\n">>, <<"\n", "-", "-", "-", "x", "\n">>, <<"\n">>}

Bodies == {<<"b">>, <<"\n", " ", " ", "b", "\n">>, <<" ", " ", "b">>, <<>>, <<"\n", "b", "\n", "-", "-", "-", "\n">>}

\* one header line between every opener and closer, then every body
DelimDocs == {o \o <<"k", ":", " ", "v">> \o c \o b : o \in Openers, c \in Closers, b \in Bodies}

\* CRLF line ends; a scalar globs value
OtherDocs == {<<"-", "-", "-", "\r", "\n", "k", ":", " ", "v", "\r", "\n", "-", "-", "-", "\r", "\n", "b">>, <<"-", "-", "-", "\n", "g", "l", "o", "b", "s", ":", " ", "x", "\n", "-", "-", "-", "\n", "b">>}

InfoStrings == {<<>>, <<"j", "s">>, <<"c", "+", "+">>}

CodeSamples ==
  {<<"<", "s", "c", "r", "i", "p", "t", ">", "\n">>, <<"a", " ", "&", " ", "b", "\n">>, <<"#", " ", "h", "\n">>, <<"-", " ", "i", "\n">>, <<"*", "a", "*", "\n">>, <<"x", "\n", "\n", "y", "\n">>,
   <<Backtick, "c", Backtick, "\n">>, <<"[", "t", "]", "(", "u", ")", "\n">>, <<"x", "\n">>}

Tails == {<<>>, <<"\n", "\n", "t">>}

\* header-less guides whose body is one fenced code block
FenceDocs ==
  {Fence \o info \o <<NL>> \o code \o Fence \o tail :
     info \in InfoStrings, code \in CodeSamples, tail \in Tails}

\* list sources: numbered items, and items under each bullet marker
OrderedSources == {<<"1", ".", " ", "a">>, <<"1", ".", " ", "a", "\n", "2", ".", " ", "b">>}

Markers == {<<"-">>, <<"*">>, <<"+">>}

UnorderedSources ==
  {m \o <<" ", "a">> : m \in Markers} \cup {m \o <<" ", "a", "\n">> \o m \o <<" ", "b">> : m \in Markers}

\* what follows a list: nothing, a line end, a blank line and a paragraph
ListTails == {<<>>, <<"\n">>, <<"\n", "\n", "t">>}

ListDocs ==
  {src \o tail : src \in OrderedSources \cup UnorderedSources, tail \in ListTails}

\* a paragraph as a sequence of segments: plain text, a bold span (**x**), an
\* italic span (*y*)
Plain(t) == [k |-> "plain", t |-> t]

Bold(t) == [k |-> "bold", t |-> t]

Italic(t) == [k |-> "italic", t |-> t]

SegmentSet ==
  {Plain(<<" ", "a", "n", "d", " ">>), Bold(<<"b", "o", "l", "d">>), Bold(<<"a", "_", "b">>), Italic(<<"i", "t", "a", "l", "i", "c">>), Italic(<<"c", "_", "d">>)}

\* paragraphs with one bold and one italic span and up to one plain segment,
\* and the paragraph 'Some **bold** and *italic* text.'
ParagraphSegs ==
  {ss \in UNION {[1..n -> SegmentSet] : n \in 2..3} :
     /\ Cardinality({i \in DOMAIN ss : ss[i].k = "bold"}) = 1
     /\ Cardinality({i \in DOMAIN ss : ss[i].k = "italic"}) = 1}
  \cup {<<Plain(<<"S", "o", "m", "e", " ">>), Bold(<<"b", "o", "l", "d">>), Plain(<<" ", "a", "n", "d", " ">>), Italic(<<"i", "t", "a", "l", "i", "c">>),
          Plain(<<" ", "t", "e", "x", "t", ".">>)>>}

SourceOfSegment(seg) ==
  CASE seg.k = "plain" -> seg.t
    [] seg.k = "bold" -> <<"*", "*">> \o seg.t \o <<"*", "*">>
    [] seg.k = "italic" -> <<"*">> \o seg.t \o <<"*">>

RECURSIVE SourceOfSegments(_)
SourceOfSegments(ss) ==
  IF ss = <<>> THEN <<>> ELSE SourceOfSegment(Head(ss)) \o SourceOfSegments(Tail(ss))

TitleLine == <<"#", " ", "T", "i", "t", "l", "e">>

\* a heading line, a blank line, a paragraph
EmphasisDocs == {TitleLine \o <<"\n", "\n">> \o SourceOfSegments(ss) : ss \in ParagraphSegs}

\* links and images, alone and inside a sentence
LinkDocs ==
  {<<"[", "t", "]", "(", "u", ")">>, <<"!", "[", "a", "]", "(", "u", ")">>, <<"!", "[", "]", "(", "u", ")">>, <<"s", "e", "e", " ", "[", "t", "]", "(", "u", ")", " ", "a", "n", "d", " ", "!", "[", "a", "]", "(", "u", ")">>}

\* blocks of plain text, of one line and of two
PlainBlocks == {<<"t">>, <<"h", "e", "l", "l", "o", " ", "w", "o", "r", "l", "d">>, <<"a", "\n", "b">>}

\* what precedes a plain block: nothing, a plain block, a heading, a list
BlockHeads == {<<>>, <<"x", "\n", "\n">>, <<"#", " ", "h", "\n", "\n">>, <<"-", " ", "i", "\n", "\n">>, <<"x", "\n", "\n", "\n">>}

PlainDocs == {h \o b : h \in BlockHeads, b \in PlainBlocks} \cup {<<>>}

MarkdownDocs == ListDocs \cup EmphasisDocs \cup LinkDocs \cup PlainDocs

Documents == HeaderDocs \cup DelimDocs \cup OtherDocs \cup FenceDocs \cup MarkdownDocs

(***************************************************************************)
(* The pipeline: the build parses a file and assembles its guide; the page *)
(* shows the guide (parseMarkdown) and copies / saves it                   *)
(* (buildMdcContent); the saved file is a rule file again and is parsed by *)
(* the next build.                                                         *)
(***************************************************************************)
\* the stacks of the configuration, in its order
StackIds ==
  <<"typescript", "python", "rust", "arduino-platformio", "python-fastapi",
    "solidity-foundry", "typescript-react-nextjs">>

MaxStacks == 2

STACKS == SubSeq(StackIds, 1, MaxStacks)

MaxRuns == 2

\* a stack whose rule directory does not exist: readdir fails
MissingDir == [exists |-> FALSE, files |-> {}, readme |-> FALSE]

\* the entries a rule directory can hold: two files whose titles differ, two
\* files with the same title, a file that is no rule file
FileSets ==
  {{<<"b", "-", "g", "u", "i", "d", "e", ".", "m", "d", "c">>, <<"a", "-", "g", "u", "i", "d", "e", ".", "m", "d", "c">>, ReadmeName},
   {<<"a", "_", "g", "u", "i", "d", "e", ".", "m", "d", "c">>, <<"a", "-", "g", "u", "i", "d", "e", ".", "m", "d", "c">>},
   {}}

DirStates ==
  {MissingDir} \cup {[exists |-> TRUE, files |-> fs, readme |-> r] :
                       fs \in FileSets, r \in BOOLEAN}

\* the text of every rule file
FileText(file) ==
  CASE file = <<"a", "-", "g", "u", "i", "d", "e", ".", "m", "d", "c">> -> <<"-", "-", "-", "\n", "g", "l", "o", "b", "s", ":", "\n", "-", " ", "a", "\n", "-", "-", "-", "\n", "A">>
    [] file = <<"a", "_", "g", "u", "i", "d", "e", ".", "m", "d", "c">> -> <<"t">>
    [] file = <<"b", "-", "g", "u", "i", "d", "e", ".", "m", "d", "c">> -> <<"-", "-", "-", "\n", "a", "l", "w", "a", "y", "s", "A", "p", "p", "l", "y", ":", " ", "t", "r", "u", "e", "\n", "-", "-", "-", "\n", "B">>
    [] OTHER -> <<>>

ReadmeText == <<"#", " ", "r">>

\* the orders in which readdir can return the entries of a directory
Listings(S) ==
  {l \in [1..Cardinality(S) -> S] : \A i, j \in DOMAIN l : i # j => l[i] # l[j]}

\* the guides of the files of a listing, in the order of the listing
GuidesOf(names) == [i \in 1..Len(names) |-> GuideOf(names[i], FileText(names[i]))]

NoOutput == [stacks |-> <<>>, generatedAt |-> 0]

\* guides.json: absent, holding a whole snapshot, or opened for writing and
\* not yet holding one
AbsentFile == [state |-> "absent", data |-> NoOutput]

WholeFile(out) == [state |-> "whole", data |-> out]

PartFile == [state |-> "part", data |-> NoOutput]

\* a snapshot written by a run of an earlier day
OldOutput ==
  [stacks |-> [i \in 1..Len(STACKS) |->
                 [id |-> STACKS[i], readme |-> <<"o", "l", "d">>, guides |-> <<>>]],
   generatedAt |-> 0]

BuildNotStarted ==
  /\ bpc = "idle"
  /\ stackIndex = 1
  /\ files = <<>>
  /\ stacksData = <<>>
  /\ output = NoOutput
  /\ runs = 0

(***************************************************************************)
(* The page: snapshots it can fetch, and its state when the script loads   *)
(***************************************************************************)
MaxClicks == 2

\* null and undefined
Null == [null |-> TRUE]

\* guides of a snapshot: globs given as a list, globs given as a scalar,
\* alwaysApply set
GuideA == GuideOf(<<"a", "-", "g", "u", "i", "d", "e", ".", "m", "d", "c">>, FileText(<<"a", "-", "g", "u", "i", "d", "e", ".", "m", "d", "c">>))

GuideB == GuideOf(<<"b", "-", "g", "u", "i", "d", "e", ".", "m", "d", "c">>, FileText(<<"b", "-", "g", "u", "i", "d", "e", ".", "m", "d", "c">>))

GuideC == GuideOf(<<"c", "-", "g", "u", "i", "d", "e", ".", "m", "d", "c">>, <<"-", "-", "-", "\n", "g", "l", "o", "b", "s", ":", " ", "x", "\n", "-", "-", "-", "\n", "C">>)

\* the snapshots of two builds: a stack was added and a guide removed
SnapshotOne ==
  [stacks |-> <<[id |-> "typescript", readme |-> ReadmeText,
                 guides |-> <<GuideA, GuideC>>]>>,
   generatedAt |-> 1]

SnapshotTwo ==
  [stacks |-> <<[id |-> "typescript", readme |-> ReadmeText, guides |-> <<GuideA>>],
                [id |-> "python", readme |-> <<>>, guides |-> <<GuideB>>]>>,
   generatedAt |-> 2]

\* what fetch("data/guides.json") followed by response.json() can give: a
\* failure (network error, status not ok, text that is no JSON) or a snapshot
FetchFailed == [failed |-> TRUE]

FetchResults == {FetchFailed, SnapshotOne, SnapshotTwo}

CopyButtons == {"copyBtn", "copyBtnFooter"}

\* the markup of a copy button in the page, and the one showButtonSuccess sets
OriginalHTML == <<"C", "o", "p", "y">>

SuccessHTML(text) == <<"<", "s", "p", "a", "n", ">">> \o text \o <<"<", "/", "s", "p", "a", "n", ">">>

NoCards == [state |-> "empty", data |-> Null]

\* modalTitle and modalContent hold what they were rendered from
NoContent == [kind |-> "none"]

TitleOf(stack, text) == [kind |-> "title", stackId |-> stack.id, text |-> text]

GuideView(g) == [kind |-> "guide", guide |-> g]

OverviewOf(stackId, stack) == [kind |-> "overview", stackId |-> stackId, stack |-> stack]

ClosedModal ==
  [active |-> FALSE, footer |-> FALSE, title |-> NoContent, content |-> NoContent,
   copyDisplay |-> "none"]

NoCall == [fn |-> "none"]

UiNotStarted ==
  /\ upc = "loading"
  /\ guidesData = Null
  /\ cards = NoCards
  /\ currentGuide = Null
  /\ currentStack = Null
  /\ modal = ClosedModal
  /\ buttons = [b \in CopyButtons |-> [html |-> OriginalHTML, success |-> FALSE]]
  /\ copies = <<>>
  /\ timers = <<>>
  /\ clicks = 0
  /\ download = Null
  /\ lastCall = NoCall

NoGuide == MakeGuide(EmptyMap, <<>>)

NoParse == [frontmatter |-> EmptyMap, body |-> <<>>]

Init ==
  /\ content \in Documents
  /\ pc = "parse"
  /\ lines = <<>>
  /\ idx = 1
  /\ currentKey = NullKey
  /\ frontmatter = EmptyMap
  /\ body = <<>>
  /\ guide = NoGuide
  /\ mdc = <<>>
  /\ reparsed = NoParse
  /\ html = <<>>
  /\ dirs = [i \in 1..Len(STACKS) |-> MissingDir]
  /\ BuildNotStarted
  /\ guidesJson = AbsentFile
  /\ before = AbsentFile
  /\ ServerNotStarted
  /\ UiNotStarted

\* parseFrontmatter, lines 69-76: the two early returns
ParseNoHeader ==
  /\ pc = "parse"
  /\ ~HasHeader(content)
  /\ frontmatter' = EmptyMap
  /\ body' = content
  /\ pc' = "parsed"
  /\ UNCHANGED notPageVars
  /\ UNCHANGED <<content, lines, idx, currentKey, guide, mdc, reparsed, html>>

\* parseFrontmatter, lines 78-83
ParseHeader ==
  /\ pc = "parse"
  /\ HasHeader(content)
  /\ lines' = SplitLines(FmText(content))
  /\ body' = BodyOf(content)
  /\ frontmatter' = EmptyMap
  /\ currentKey' = NullKey
  /\ idx' = 1
  /\ pc' = "lines"
  /\ UNCHANGED notPageVars
  /\ UNCHANGED <<content, guide, mdc, reparsed, html>>

\* parseFrontmatter, lines 85-120: one iteration of the loop
ParseLineStep ==
  /\ pc = "lines"
  /\ idx <= Len(lines)
  /\ LET st == ParseLine([fm |-> frontmatter, currentKey |-> currentKey], lines[idx])
     IN /\ frontmatter' = st.fm
        /\ currentKey' = st.currentKey
  /\ idx' = idx + 1
  /\ UNCHANGED notPageVars
  /\ UNCHANGED <<content, pc, lines, body, guide, mdc, reparsed, html>>

\* parseFrontmatter, line 122
ParseReturn ==
  /\ pc = "lines"
  /\ idx > Len(lines)
  /\ pc' = "parsed"
  /\ UNCHANGED notPageVars
  /\ UNCHANGED <<content, lines, idx, currentKey, frontmatter, body, guide, mdc,
                 reparsed, html>>

\* buildGuidesData, lines 161-175
AssembleGuide ==
  /\ pc = "parsed"
  /\ guide' = MakeGuide(frontmatter, body)
  /\ pc' = "guide"
  /\ UNCHANGED notPageVars
  /\ UNCHANGED <<content, lines, idx, currentKey, frontmatter, body, mdc,
                 reparsed, html>>

\* showGuide: content += parseMarkdown(guide.content)
ShowGuide ==
  /\ pc = "guide"
  /\ ~ShowGuideThrows(guide)
  /\ html' = parseMarkdown(guide.content)
  /\ pc' = "shown"
  /\ UNCHANGED notPageVars
  /\ UNCHANGED <<content, lines, idx, currentKey, frontmatter, body, guide, mdc,
                 reparsed>>

\* copyGuideContent / saveGuideFile: const content = buildMdcContent(currentGuide)
CopyGuide ==
  /\ pc = "shown"
  /\ ~BuildMdcThrows(guide)
  /\ mdc' = buildMdcContent(guide)
  /\ pc' = "copied"
  /\ UNCHANGED notPageVars
  /\ UNCHANGED <<content, lines, idx, currentKey, frontmatter, body, guide,
                 reparsed, html>>

\* showGuide when guide.globs.join is not a function: currentGuide is set,
\* the modal content is not
ShowGuideFails ==
  /\ pc = "guide"
  /\ ShowGuideThrows(guide)
  /\ pc' = "showThrew"
  /\ UNCHANGED notPageVars
  /\ UNCHANGED <<content, lines, idx, currentKey, frontmatter, body, guide, mdc,
                 reparsed, html>>

\* the same call when guide.globs.forEach is not a function
CopyGuideThrows ==
  /\ pc = "showThrew"
  /\ BuildMdcThrows(guide)
  /\ pc' = "copyThrew"
  /\ UNCHANGED notPageVars
  /\ UNCHANGED <<content, lines, idx, currentKey, frontmatter, body, guide, mdc,
                 reparsed, html>>

\* the next build reads the saved file: parseFrontmatter(content)
ParseSaved ==
  /\ pc = "copied"
  /\ reparsed' = parseFrontmatter(mdc)
  /\ pc' = "reparsed"
  /\ UNCHANGED notPageVars
  /\ UNCHANGED <<content, lines, idx, currentKey, frontmatter, body, guide, mdc,
                 html>>

Next ==
  \/ ParseNoHeader
  \/ ParseHeader
  \/ ParseLineStep
  \/ ParseReturn
  \/ AssembleGuide
  \/ ShowGuide
  \/ ShowGuideFails
  \/ CopyGuide
  \/ CopyGuideThrows
  \/ ParseSaved

Spec == Init /\ [][Next]_vars


(***************************************************************************)
(* The build: runs of buildGuidesData over directories that do not change. *)
(***************************************************************************)
PageNotStarted ==
  /\ content = <<>>
  /\ pc = "parse"
  /\ lines = <<>>
  /\ idx = 1
  /\ currentKey = NullKey
  /\ frontmatter = EmptyMap
  /\ body = <<>>
  /\ guide = NoGuide
  /\ mdc = <<>>
  /\ reparsed = NoParse
  /\ html = <<>>

BuildInit ==
  /\ PageNotStarted
  /\ dirs \in [1..Len(STACKS) -> DirStates]
  /\ BuildNotStarted
  /\ guidesJson \in {AbsentFile, WholeFile(OldOutput)}
  /\ before = guidesJson
  /\ ServerNotStarted
  /\ UiNotStarted

\* buildGuidesData, lines 143-148, run by line 218
StartBuild ==
  /\ bpc \in {"idle", "done", "failed"}
  /\ runs < MaxRuns
  /\ runs' = runs + 1
  /\ before' = guidesJson
  /\ stacksData' = <<>>
  /\ stackIndex' = 1
  /\ output' = NoOutput
  /\ bpc' = "stacks"
  /\ UNCHANGED <<dirs, files, guidesJson>>
  /\ UNCHANGED notBuildVars

\* buildGuidesData, lines 150-196: one stack of the loop
ReadStack ==
  /\ bpc = "stacks"
  /\ stackIndex <= Len(STACKS)
  /\ dirs[stackIndex].exists
  /\ files' \in Listings(dirs[stackIndex].files)
  /\ stacksData' =
       Append(stacksData,
              [id |-> STACKS[stackIndex],
               readme |-> IF dirs[stackIndex].readme THEN ReadmeText ELSE <<>>,
               guides |-> SortGuides(GuidesOf(FilterMdc(files')))])
  /\ stackIndex' = stackIndex + 1
  /\ UNCHANGED <<dirs, bpc, output, guidesJson, before, runs>>
  /\ UNCHANGED notBuildVars

\* a failing readdir after which the stacks read so far are written
ReadDirFails_WritesEarlier ==
  /\ bpc = "stacks"
  /\ stackIndex <= Len(STACKS)
  /\ ~dirs[stackIndex].exists
  /\ output' = [stacks |-> stacksData, generatedAt |-> runs]
  /\ guidesJson' = WholeFile(output')
  /\ bpc' = "failed"
  /\ UNCHANGED <<dirs, stackIndex, files, stacksData, before, runs>>
  /\ UNCHANGED notBuildVars

\* buildGuidesData, line 153 failing: the rejection is caught at line 218
ReadDirFails ==
  /\ bpc = "stacks"
  /\ stackIndex <= Len(STACKS)
  /\ ~dirs[stackIndex].exists
  /\ bpc' = "failed"
  /\ UNCHANGED <<dirs, stackIndex, files, stacksData, output, guidesJson, before, runs>>
  /\ UNCHANGED notBuildVars

\* buildGuidesData, lines 199-204: fs.writeFile opens guides.json for writing,
\* which empties it
WriteStarts ==
  /\ bpc = "stacks"
  /\ stackIndex > Len(STACKS)
  /\ output' = [stacks |-> stacksData, generatedAt |-> runs]
  /\ guidesJson' = PartFile
  /\ bpc' = "writing"
  /\ UNCHANGED <<dirs, stackIndex, files, stacksData, before, runs>>
  /\ UNCHANGED notBuildVars

\* buildGuidesData, lines 204-215: the write completes
WriteCompletes ==
  /\ bpc = "writing"
  /\ guidesJson' = WholeFile(output)
  /\ bpc' = "done"
  /\ UNCHANGED <<dirs, stackIndex, files, stacksData, output, before, runs>>
  /\ UNCHANGED notBuildVars

\* buildGuidesData, lines 204-208 failing once the file is open: the
\* rejection is caught at line 218
WriteFails ==
  /\ bpc = "writing"
  /\ bpc' = "failed"
  /\ UNCHANGED <<dirs, stackIndex, files, stacksData, output, guidesJson, before, runs>>
  /\ UNCHANGED notBuildVars

BuildNext ==
  \/ StartBuild
  \/ ReadStack
  \/ ReadDirFails
  \/ WriteStarts
  \/ WriteCompletes
  \/ WriteFails

BuildSpec == BuildInit /\ [][BuildNext]_vars

(***************************************************************************)
(* The file server                                                         *)
(***************************************************************************)
BuildNotUsed ==
  /\ dirs = [i \in 1..Len(STACKS) |-> MissingDir]
  /\ BuildNotStarted
  /\ guidesJson = AbsentFile
  /\ before = AbsentFile

ServerInit ==
  /\ PageNotStarted
  /\ BuildNotUsed
  /\ disk \in Disks
  /\ request = NoRequest
  /\ response = NoResponse
  /\ server = "starting"
  /\ handled = 0
  /\ UiNotStarted

\* part_003, lines 379-383: server.listen
Listen ==
  /\ server = "starting"
  /\ server' = "listening"
  /\ UNCHANGED <<disk, request, response, handled>>
  /\ UNCHANGED notServerVars

\* part_003, lines 336-377: the request handler, run for one request; an
\* exception of new URL leaves the handler and ends the process
HandleRequest ==
  /\ server = "listening"
  /\ handled < MaxRequests
  /\ \E req \in Requests :
       /\ request' = req
       /\ response' = Respond(disk, req)
       /\ server' = IF UrlPathname(req.url, req.host).ok THEN "listening" ELSE "crashed"
  /\ handled' = handled + 1
  /\ UNCHANGED disk
  /\ UNCHANGED notServerVars

ServerNext == Listen \/ HandleRequest

ServerSpec == ServerInit /\ [][ServerNext]_vars

(***************************************************************************)
(* The page (docs/app.js): start-up, modal, copy and save                  *)
(***************************************************************************)
UiInit ==
  /\ PageNotStarted
  /\ BuildNotUsed
  /\ ServerNotStarted
  /\ UiNotStarted

\* app.js, lines 213-269
showStackOverview(stackId) ==
  LET si == IF guidesData = Null THEN 0 ELSE FindById(guidesData.stacks, stackId)
      stack == guidesData.stacks[si]
  IN /\ lastCall' = [fn |-> "showStackOverview", stackId |-> stackId]
     /\ IF si = 0
        THEN UNCHANGED <<currentGuide, currentStack, modal>>
        ELSE /\ currentGuide' = Null
             /\ currentStack' = stack
             /\ modal' = [active |-> TRUE, footer |-> FALSE,
                          title |-> TitleOf(stack, stack.id),
                          content |-> OverviewOf(stackId, stack),
                          copyDisplay |-> "none"]

\* app.js, lines 275-325; the TypeError of guide.globs.join at line 314 ends
\* the call after the title and the buttons were set
showGuide(stackId, guideId) ==
  LET si == IF guidesData = Null THEN 0 ELSE FindById(guidesData.stacks, stackId)
      stack == guidesData.stacks[si]
      gi == IF si = 0 THEN 0 ELSE FindById(stack.guides, guideId)
      g == stack.guides[gi]
  IN /\ lastCall' = [fn |-> "showGuide", stackId |-> stackId, guideId |-> guideId]
     /\ IF gi = 0
        THEN UNCHANGED <<currentGuide, currentStack, modal>>
        ELSE /\ currentGuide' = g
             /\ currentStack' = stack
             /\ modal' = IF ShowGuideThrows(g)
                         THEN [modal EXCEPT !.title = TitleOf(stack, g.title),
                                            !.copyDisplay = "flex"]
                         ELSE [active |-> TRUE, footer |-> TRUE,
                               title |-> TitleOf(stack, g.title),
                               content |-> GuideView(g),
                               copyDisplay |-> "flex"]

\* app.js, lines 447-456
showButtonSuccess(btn, text) ==
  /\ buttons' = [buttons EXCEPT ![btn] = [html |-> SuccessHTML(text), success |-> TRUE]]
  /\ timers' = Append(timers, [btn |-> btn, originalHTML |-> buttons[btn].html])

\* app.js, lines 502-507 and 489-491: init runs and starts the first fetch
StartInit ==
  /\ upc = "loading"
  /\ upc' = "init"
  /\ UNCHANGED <<guidesData, cards, currentGuide, currentStack, modal, buttons,
                 copies, timers, clicks, download, lastCall>>
  /\ UNCHANGED notUiVars

\* app.js, lines 491-499 and 97-102: the first fetch ends, window.guidesData
\* is set when it gave a snapshot, and loadStacks starts the second fetch
InitFetched ==
  /\ upc = "init"
  /\ \E r \in FetchResults :
       guidesData' = IF r = FetchFailed THEN guidesData ELSE r
  /\ cards' = [state |-> "loading", data |-> Null]
  /\ upc' = "stacks"
  /\ UNCHANGED <<currentGuide, currentStack, modal, buttons, copies, timers,
                 clicks, download, lastCall>>
  /\ UNCHANGED notUiVars

\* app.js, lines 102-117 and 120-211: the second fetch ends and the cards are
\* rendered from what it gave, or the error text is shown
StacksFetched ==
  /\ upc = "stacks"
  /\ \E r \in FetchResults :
       cards' = IF r = FetchFailed THEN [state |-> "failed", data |-> Null]
                ELSE [state |-> "rendered", data |-> r]
  /\ upc' = "ready"
  /\ UNCHANGED <<guidesData, currentGuide, currentStack, modal, buttons, copies,
                 timers, clicks, download, lastCall>>
  /\ UNCHANGED notUiVars

\* app.js, lines 191-198 (and the button of lines 147-151): click on a card
ClickStackCard ==
  /\ cards.state = "rendered"
  /\ \E i \in DOMAIN cards.data.stacks : showStackOverview(cards.data.stacks[i].id)
  /\ UNCHANGED <<upc, guidesData, cards, buttons, copies, timers, clicks, download>>
  /\ UNCHANGED notUiVars

\* app.js, lines 200-210: click on one of the first six guides of a card
ClickGuideItem ==
  /\ cards.state = "rendered"
  /\ \E i \in DOMAIN cards.data.stacks :
       \E j \in DOMAIN cards.data.stacks[i].guides :
         /\ j <= 6
         /\ showGuide(cards.data.stacks[i].id, cards.data.stacks[i].guides[j].id)
  /\ UNCHANGED <<upc, guidesData, cards, buttons, copies, timers, clicks, download>>
  /\ UNCHANGED notUiVars

\* app.js, lines 251-263: click on a guide of the overview in the modal
ClickOverviewLink ==
  /\ modal.active
  /\ modal.content.kind = "overview"
  /\ \E j \in DOMAIN modal.content.stack.guides :
       showGuide(modal.content.stackId, modal.content.stack.guides[j].id)
  /\ UNCHANGED <<upc, guidesData, cards, buttons, copies, timers, clicks, download>>
  /\ UNCHANGED notUiVars

\* app.js, lines 459-469: click on the close button or on the backdrop
CloseModal ==
  /\ modal.active
  /\ modal' = [modal EXCEPT !.active = FALSE, !.footer = FALSE]
  /\ UNCHANGED <<upc, guidesData, cards, currentGuide, currentStack, buttons,
                 copies, timers, clicks, download, lastCall>>
  /\ UNCHANGED notUiVars

\* app.js, lines 472-478 and 350-356: click on a copy button; copyGuideContent
\* builds the text and waits for the clipboard
ClickCopy ==
  /\ clicks < MaxClicks
  /\ clicks' = clicks + 1
  /\ \E btn \in CopyButtons :
       copies' = IF currentGuide = Null \/ BuildMdcThrows(currentGuide)
                 THEN copies
                 ELSE Append(copies, btn)
  /\ UNCHANGED <<upc, guidesData, cards, currentGuide, currentStack, modal,
                 buttons, timers, download, lastCall>>
  /\ UNCHANGED notUiVars

\* app.js, lines 356-369: the clipboard write ends, fulfilled or rejected,
\* and either way showButtonSuccess runs
ClipboardSettles ==
  /\ \E i \in DOMAIN copies :
       /\ copies' = SubSeq(copies, 1, i - 1) \o SubSeq(copies, i + 1, Len(copies))
       /\ showButtonSuccess(copies[i], <<"C", "o", "p", "i", "e", "d", "!">>)
  /\ UNCHANGED <<upc, guidesData, cards, currentGuide, currentStack, modal,
                 clicks, download, lastCall>>
  /\ UNCHANGED notUiVars

\* app.js, lines 452-455: the oldest timer fires
TimerFires ==
  /\ timers # <<>>
  /\ buttons' = [buttons EXCEPT ![Head(timers).btn] =
                   [html |-> Head(timers).originalHTML, success |-> FALSE]]
  /\ timers' = Tail(timers)
  /\ UNCHANGED <<upc, guidesData, cards, currentGuide, currentStack, modal,
                 copies, clicks, download, lastCall>>
  /\ UNCHANGED notUiVars

\* app.js, lines 480-486 and 373-393: click on a save button
ClickSave ==
  /\ currentGuide # Null
  /\ ~BuildMdcThrows(currentGuide)
  /\ download' = [fileName |-> IF EndsWithMdc(currentGuide.fileName)
                                THEN currentGuide.fileName
                                ELSE currentGuide.fileName \o MdcSuffix]
  /\ UNCHANGED <<upc, guidesData, cards, currentGuide, currentStack, modal,
                 buttons, copies, timers, clicks, lastCall>>
  /\ UNCHANGED notUiVars

UiNext ==
  \/ StartInit
  \/ InitFetched
  \/ StacksFetched
  \/ ClickStackCard
  \/ ClickGuideItem
  \/ ClickOverviewLink
  \/ CloseModal
  \/ ClickCopy
  \/ ClipboardSettles
  \/ TimerFires
  \/ ClickSave

UiSpec == UiInit /\ [][UiNext]_vars
(***************************************************************************)
(* Vocabulary of the properties: the shapes of header lines and of a       *)
(* document, stated on the text alone.                                     *)
(***************************************************************************)
Contains(s, p) == IndexOf(s, p, 1) # 0

IsBlankLine(l) == Trim(l) = <<>>

IsItemLine(l) == ~IsBlankLine(l) /\ Trim(l)[1] = "-"

IsKeyLine(l) == ~IsBlankLine(l) /\ ~IsItemLine(l) /\ Contains(l, <<":">>)

\* the text after the colon of a key line, trimmed and otherwise as written
RawValue(l) == Trim(SliceFrom(l, IndexOf(l, <<":">>, 1) + 1))

\* 'key:' with a key and nothing after the colon
ListOpenLine(l) == IsKeyLine(l) /\ RawValue(l) = <<>> /\ KeyOfLine(l) # <<>>

\* enclosed in a matching pair of quotes
MatchingQuoted(v) == Len(v) >= 2 /\ IsQuote(v[1]) /\ v[Len(v)] = v[1]

\* no quote at either end, or a matching pair
QuotesBalanced(v) ==
  \/ v = <<>>
  \/ MatchingQuoted(v)
  \/ ~IsQuote(v[1]) /\ ~IsQuote(v[Len(v)])

\* the position of the newline before the first later line that consists
\* solely of '---', or 0
ClosingLineAt(text) ==
  LET M == {i \in 4..Len(text) :
              /\ StartsWithAt(text, NlDelim, i)
              /\ \/ i + 4 > Len(text)
                 \/ text[i + 4] = NL
                 \/ StartsWithAt(text, <<CR, NL>>, i + 4)}
  IN IF M = {} THEN 0 ELSE MinOf(M)

\* the text after the line that closes the header
AfterClosingLine(text) ==
  LET n == IndexOf(text, <<NL>>, EndIndex(text) + 1)
  IN IF n = 0 THEN <<>> ELSE SliceFrom(text, n + 1)

\* t without its leading blank lines, nothing else changed
RECURSIVE DropLeadingBlankLines(_)
DropLeadingBlankLines(t) ==
  LET n == IndexOf(t, <<NL>>, 1)
  IN IF n = 0 THEN (IF Trim(t) = <<>> THEN <<>> ELSE t)
     ELSE IF Trim(SubSeq(t, 1, n)) = <<>> THEN DropLeadingBlankLines(SliceFrom(t, n + 1))
     ELSE t

\* the header lines are key lines with a key and balanced quotes, and list
\* items that directly continue a list
WellFormedLines(ls) ==
  /\ Len(ls) >= 1
  /\ \A i \in 1..Len(ls) :
       \/ /\ IsKeyLine(ls[i])
          /\ KeyOfLine(ls[i]) # <<>>
          /\ QuotesBalanced(RawValue(ls[i]))
       \/ /\ IsItemLine(ls[i])
          /\ i > 1
          /\ (IsItemLine(ls[i - 1]) \/ ListOpenLine(ls[i - 1]))
          /\ QuotesBalanced(Trim(Tail(Trim(ls[i]))))

\* a document whose header is opened and closed by lines that are '---' alone
\* and holds well-formed lines
WellFormedDoc(text) ==
  /\ StartsWith(text, Delim \o <<NL>>)
  /\ ClosingLineAt(text) # 0
  /\ ClosingLineAt(text) = EndIndex(text)
  /\ WellFormedLines(SplitLines(FmText(text)))

\* the array of key k in header fm (empty where k holds no array)
ListOf(fm, k) == IF Has(fm, k) /\ fm[k].t = "list" THEN fm[k].l ELSE <<>>

Assembled == pc \in {"guide", "shown", "showThrew", "copied", "copyThrew", "reparsed"}

\* the loop of parseFrontmatter is about to process a list-item line
AtItemLine == pc = "lines" /\ idx <= Len(lines) /\ IsItemLine(lines[idx])

AtKeyLine == pc = "lines" /\ idx <= Len(lines) /\ IsKeyLine(lines[idx])

\* indexes of the lines before the current one that are 'key:' list openers
OpenersBefore == {j \in 1..(idx - 1) : ListOpenLine(lines[j])}

\* indexes of the lines before the current one that are key lines
KeyLinesBefore == {j \in 1..(idx - 1) : IsKeyLine(lines[j])}

\* every key line before the current one has a non-empty key
AllKeysNamedBefore == \A j \in KeyLinesBefore : KeyOfLine(lines[j]) # <<>>

(***************************************************************************)
(* Properties                                                              *)
(***************************************************************************)

\* C1: for an input that does not begin with '---', parseFrontmatter returns
\* an empty header and a body identical to the input, character for
\* character, and the guide carries exactly that.
C1_NoDelimiterWholeBody ==
  /\ (pc # "parse" /\ ~StartsWith(content, Delim))
       => (frontmatter = EmptyMap /\ body = content)
  /\ (Assembled /\ ~StartsWith(content, Delim))
       => (guide.frontmatter = EmptyMap /\ guide.content = content)

\* a parsed input without the opening delimiter that starts with white space
\* and holds a '---' line further down
C1_Witness ==
  /\ pc = "parsed"
  /\ ~StartsWith(content, Delim)
  /\ content # <<>>
  /\ IsSpace(content[1])
  /\ Contains(content, NlDelim)

\* C2: when the input begins with '---', the header block is the text between
\* the opening delimiter and the first later line that consists solely of
\* '---'; a line that only starts with '---' does not close the header.
C2_HeaderEndsAtSoleDelimiterLine ==
  (pc = "lines" /\ StartsWith(content, Delim) /\ ClosingLineAt(content) # 0)
    => lines = SplitLines(Trim(SubSeq(content, 4, ClosingLineAt(content) - 1)))

\* C3: when the input begins with '---' and no line that consists solely of
\* '---' follows, the header is empty, the body is the whole input, and the
\* build goes on to assemble the guide from them.
C3_UnclosedHeaderWholeBody ==
  (Assembled /\ StartsWith(content, Delim) /\ ClosingLineAt(content) = 0)
    => (guide.frontmatter = EmptyMap /\ guide.content = content)

ClaimedValue(raw) ==
  IF raw = <<>> THEN ListVal(<<>>)
  ELSE IF raw = TrueStr THEN BoolVal(TRUE)
  ELSE IF raw = FalseStr THEN BoolVal(FALSE)
  ELSE IF MatchingQuoted(raw) THEN StrVal(SubSeq(raw, 2, Len(raw) - 1))
  ELSE StrVal(raw)

\* C5: a 'key: value' line stores the value with its quotes stripped only when
\* it is enclosed in a matching pair of quotes, true / false as booleans, and
\* every other value as the trimmed text unchanged; the key is opened as a
\* list only when nothing follows the colon.
C5_ScalarStoredAsWritten ==
  [][AtKeyLine =>
       /\ Has(frontmatter', KeyOfLine(lines[idx]))
       /\ frontmatter'[KeyOfLine(lines[idx])] = ClaimedValue(RawValue(lines[idx]))]_vars

\* C6: when a header is found (closed by a line that is '---' alone), the body
\* is the text after the closing line with its leading blank lines removed and
\* nothing else changed.
C6_BodyOnlyLosesLeadingBlankLines ==
  (/\ pc # "parse"
   /\ HasHeader(content)
   /\ ClosingLineAt(content) = EndIndex(content))
    => body = DropLeadingBlankLines(AfterClosingLine(content))

\* C7: for a document with a well-formed header, the header parsed from the
\* re-serialized guide has the same keys with the same values as the header
\* parsed first.
C7_HeaderRoundTrip ==
  (pc = "reparsed" /\ WellFormedDoc(content))
    => reparsed.frontmatter = guide.frontmatter

\* C8: parsing the text produced by buildMdcContent(guide) returns a body
\* identical to guide.content, for guides with and without a header.
C8_BodyRoundTrip == pc = "reparsed" => reparsed.body = guide.content

\* C9: the element produced for a fenced code block (its content with only
\* '&', '<' and '>' replaced) is found unchanged in the output of
\* parseMarkdown.
C9_FencedContentOnlyEscaped ==
  (pc = "shown" /\ CodeBlockAt(guide.content, 1).end # 0)
    => Contains(html, CodeBlockAt(guide.content, 1).out)

ScriptFence(info, tail) ==
  Fence \o info \o <<NL>> \o <<"<", "s", "c", "r", "i", "p", "t", ">", "\n">> \o Fence \o tail

\* C10: for a body with a fenced code block that holds '<script>', whatever
\* the info string after the opening fence, the output holds '&lt;script&gt;'
\* inside a code element and no live '<script>' tag.
C10_ScriptInFenceNeverLive ==
  (/\ pc = "shown"
   /\ \E info \in InfoStrings, tail \in Tails : guide.content = ScriptFence(info, tail))
    => /\ Contains(html, PreOpen)
       /\ Contains(html, <<"&", "l", "t", ";", "s", "c", "r", "i", "p", "t", "&", "g", "t", ";">>)
       /\ ~Contains(html, <<"<", "s", "c", "r", "i", "p", "t", ">">>)


\* the number of places where p occurs in s
Count(s, p) == Cardinality({i \in 1..Len(s) : StartsWithAt(s, p, i)})

EndsWith(s, p) == Len(s) >= Len(p) /\ SubSeq(s, Len(s) - Len(p) + 1, Len(s)) = p

\* the page is showing a guide whose body is one of the given sources followed
\* by one of the given tails
ShowsListOf(sources) ==
  /\ pc = "shown"
  /\ \E src \in sources, tail \in ListTails : guide.content = src \o tail

\* the output is one list of the given kind and holds no list of the other kind
OneListOf(tag, other) ==
  /\ StartsWith(html, <<"<">> \o tag \o <<">">>)
  /\ Count(html, <<"<">> \o tag \o <<">">>) = 1
  /\ Count(html, <<"<", "/">> \o tag \o <<">">>) = 1
  /\ Count(html, <<"<">> \o other \o <<">">>) = 0

\* C11: a run of list-item lines is wrapped in one enclosing list whose kind
\* follows the source: ol for a run of numbered items, ul for a run of items
\* under '-', '*' or '+'.
C11_ListKindFollowsSource ==
  /\ ShowsListOf(OrderedSources) => OneListOf(<<"o", "l">>, <<"u", "l">>)
  /\ ShowsListOf(UnorderedSources) => OneListOf(<<"u", "l">>, <<"o", "l">>)

\* the markup a segment of a paragraph stands for
ElementOfSegment(seg) ==
  CASE seg.k = "plain" -> seg.t
    [] seg.k = "bold" -> <<"<", "s", "t", "r", "o", "n", "g", ">">> \o seg.t \o <<"<", "/", "s", "t", "r", "o", "n", "g", ">">>
    [] seg.k = "italic" -> <<"<", "e", "m", ">">> \o seg.t \o <<"<", "/", "e", "m", ">">>

RECURSIVE ElementsOfSegments(_)
ElementsOfSegments(ss) ==
  IF ss = <<>> THEN <<>> ELSE ElementOfSegment(Head(ss)) \o ElementsOfSegments(Tail(ss))

\* C12: for a heading line, a blank line and a paragraph of bold and italic
\* spans that do not overlap in the source, the output is the heading element
\* followed by exactly one paragraph element in which every span is a strong
\* or em element of its own, none overlapping another.
C12_HeadingThenNestedSpans ==
  \A ss \in ParagraphSegs :
    (pc = "shown" /\ guide.content = TitleLine \o <<"\n", "\n">> \o SourceOfSegments(ss))
      => \E sep \in {<<>>, <<NL>>} :
           html = <<"<", "h", "1", ">", "T", "i", "t", "l", "e", "<", "/", "h", "1", ">">> \o sep \o <<"<", "p", ">">> \o ElementsOfSegments(ss) \o <<"<", "/", "p", ">">>

\* C13: '[t](u)' becomes an anchor with href u and text t, and '![a](u)'
\* becomes an image with src u and alt a, not an anchor preceded by '!'.
C13_LinksAndImagesConverted ==
  pc = "shown" =>
    /\ Contains(guide.content, <<"[", "t", "]", "(", "u", ")">>) /\ guide.content \in LinkDocs
         => /\ Contains(html, <<"<", "a", " ", "h", "r", "e", "f", "=", "\"", "u", "\"">>)
            /\ Contains(html, <<">", "t", "<", "/", "a", ">">>)
    /\ Contains(guide.content, <<"!", "[", "a", "]", "(", "u", ")">>) /\ guide.content \in LinkDocs
         => /\ Contains(html, <<"<", "i", "m", "g", " ", "s", "r", "c", "=", "\"", "u", "\"", " ", "a", "l", "t", "=", "\"", "a", "\"", ">">>)
            /\ ~Contains(html, <<"!", "<", "a">>)

\* the paragraph element of a block of plain text
Paragraph(b) == <<"<", "p", ">">> \o ReplaceChar(b, NL, <<"<", "b", "r", ">">>) \o <<"<", "/", "p", ">">>

\* C14: rendering the paragraph produced for a block of plain text yields the
\* same paragraph again.
C14_PlainParagraphIdempotent ==
  (pc = "shown" /\ guide.content \in PlainBlocks /\ html = Paragraph(guide.content))
    => parseMarkdown(html) = html

\* C15: an empty body gives the empty string, and a block of plain text set
\* off by a blank line from whatever precedes it (nothing, a paragraph, a
\* heading, a list) comes out as one paragraph element holding its text with
\* its line ends turned into line breaks.
C15_PlainBlockBecomesParagraph ==
  pc = "shown" =>
    /\ guide.content = <<>> => html = <<>>
    /\ \A h \in BlockHeads, b \in PlainBlocks :
         guide.content = h \o b
           => EndsWith(html, Paragraph(b)) /\ Count(html, Paragraph(b)) = 1

\* C17: in every assembled guide, globs is a list of strings (the items of the
\* header's globs key in source order, the empty list when the header has no
\* globs key), never a bare string or a boolean, and alwaysApply is a boolean
\* that is true only when the header's alwaysApply is true.
C17_GlobsIsAlwaysAList ==
  Assembled =>
    /\ guide.globs.t = "list"
    /\ guide.globs.l = ListOf(guide.frontmatter, GlobsKey)
    /\ guide.alwaysApply \in BOOLEAN
    /\ guide.alwaysApply =>
         /\ Has(guide.frontmatter, AlwaysApplyKey)
         /\ guide.frontmatter[AlwaysApplyKey] \in {BoolVal(TRUE), StrVal(TrueStr)}

\* the place of a file name in the directory listing
PlaceIn(listing, name) == CHOOSE i \in DOMAIN listing : listing[i] = name

\* the guides of the stack read last
LastGuides == stacksData[Len(stacksData)].guides

\* a stack has been read in this run
StackRead == bpc \in {"stacks", "writing", "done", "failed"} /\ stacksData # <<>>

\* C16: the guides of a stack are the rule files of its directory, a guide
\* named README.md first, the others in non-decreasing order of title under
\* localeCompare, guides of equal title in the order the directory listing
\* gave them.
C16_GuidesSortedByTitle ==
  StackRead =>
    /\ Len(LastGuides) = Cardinality({i \in DOMAIN files : EndsWithMdc(files[i])})
    /\ \A i \in DOMAIN files :
         EndsWithMdc(files[i]) => \E j \in DOMAIN LastGuides : LastGuides[j].fileName = files[i]
    /\ \A i, j \in DOMAIN LastGuides :
         i < j =>
           /\ LastGuides[j].fileName # ReadmeName
           /\ LastGuides[i].fileName # ReadmeName
                => /\ localeCompare(LastGuides[i].title, LastGuides[j].title) <= 0
                   /\ localeCompare(LastGuides[i].title, LastGuides[j].title) = 0
                        => PlaceIn(files, LastGuides[i].fileName)
                             < PlaceIn(files, LastGuides[j].fileName)

\* the listing gave b-guide.mdc before a-guide.mdc and the stack holds the
\* guide of a-guide.mdc before that of b-guide.mdc
C16_Witness ==
  /\ StackRead
  /\ \E i, j \in DOMAIN files :
       i < j /\ files[i] = <<"b", "-", "g", "u", "i", "d", "e", ".", "m", "d", "c">> /\ files[j] = <<"a", "-", "g", "u", "i", "d", "e", ".", "m", "d", "c">>
  /\ Len(LastGuides) = 2
  /\ LastGuides[1].fileName = <<"a", "-", "g", "u", "i", "d", "e", ".", "m", "d", "c">>
  /\ LastGuides[2].fileName = <<"b", "-", "g", "u", "i", "d", "e", ".", "m", "d", "c">>

\* a rule directory of the configuration is missing
SomeDirMissing == \E i \in DOMAIN dirs : ~dirs[i].exists

\* C18: when the rule directory of a stack cannot be read the run ends without
\* writing: guides.json is as it was before the run, and a snapshot that
\* holds only the earlier stacks is never on disk; a missing README does not
\* end the run, the stack gets the empty string for readme.
C18_DirectoryFailureWritesNothing ==
  /\ SomeDirMissing => (bpc \notin {"writing", "done"} /\ guidesJson = before)
  /\ guidesJson.state = "whole" => Len(guidesJson.data.stacks) = Len(STACKS)
  /\ (bpc = "failed" /\ stackIndex <= Len(STACKS)) => ~dirs[stackIndex].exists
  /\ \A i \in DOMAIN stacksData :
       stacksData[i].readme = (IF dirs[i].readme THEN ReadmeText ELSE <<>>)

\* the run failed at the directory of the second stack after the first stack,
\* which has no README, was read; guides.json still holds the old snapshot
C18_Witness ==
  /\ bpc = "failed"
  /\ stackIndex = 2
  /\ Len(stacksData) = 1
  /\ ~dirs[1].readme
  /\ stacksData[1].readme = <<>>
  /\ stacksData[1].guides # <<>>
  /\ guidesJson = WholeFile(OldOutput)

\* C19: at every point of a run guides.json is the whole snapshot it held
\* before the run or the whole snapshot of this run.
C19_SnapshotWholeAtEveryPoint ==
  \/ guidesJson = before
  \/ guidesJson = WholeFile(output)

\* C20: a second run over the same directories writes a snapshot equal to that
\* of the first run in everything but generatedAt, whatever order the
\* directory listings come in.
C20_SecondRunSameSnapshot ==
  (/\ bpc = "done"
   /\ before.state = "whole"
   /\ before.data.generatedAt = runs - 1
   /\ runs >= 2)
    => guidesJson.data.stacks = before.data.stacks

\* the loop of parseFrontmatter is about to process a list-item line that
\* comes directly after a line that is not a list item
AtItemAfterOtherLine == AtItemLine /\ idx > 1 /\ ~IsItemLine(lines[idx - 1])

\* C26: a line that is not a list item (a scalar line, another 'key:' line, a
\* blank line, a line without colon) ends the consumption of list items for
\* the key K in progress: a list-item line that follows a 'key:' line starts
\* the array of that line's key, and a list-item line that follows any other
\* line that is not a list item is appended to no array.
C26_OtherLineEndsListOfKey ==
  [][AtItemAfterOtherLine =>
       IF ListOpenLine(lines[idx - 1])
       THEN frontmatter' =
              Put(frontmatter, KeyOfLine(lines[idx - 1]),
                  ListVal(<<ItemValue(lines[idx])>>))
       ELSE frontmatter' = frontmatter]_vars

\* lowercase alphanumeric runs joined by single hyphens, no hyphen at an end
IsSlug(id) ==
  /\ \A p \in DOMAIN id : IsSlugChar(id[p]) \/ id[p] = "-"
  /\ id # <<>> => (id[1] # "-" /\ id[Len(id)] # "-")
  /\ \A p \in 1..(Len(id) - 1) : ~(id[p] = "-" /\ id[p + 1] = "-")

\* C30: within every stack read from a directory (whose file names are
\* distinct) the lookup showGuide makes with the id of a guide selects that
\* guide itself, and every id is made of lowercase alphanumeric runs joined
\* by single hyphens.
C30_GuideSelectedByItsId ==
  \A i \in DOMAIN stacksData :
    \A j \in DOMAIN stacksData[i].guides :
      /\ FindById(stacksData[i].guides, stacksData[i].guides[j].id) = j
      /\ IsSlug(stacksData[i].guides[j].id)

(***************************************************************************)
(* The file server                                                         *)
(***************************************************************************)

\* the handler has run for the request held in request
Answered == handled > 0

\* the URL of the request could be read
UrlRead == UrlPathname(request.url, request.host).ok

\* path p is the docs directory or lies below it
InsideDocs(p) == p = docsDir \/ StartsWith(p, docsDir \o <<"/">>)

\* the path of the request target as sent, resolved against the docs directory
TargetResolved == join(docsDir, RawPath(request.url))

\* the pathname the handler works with, and the file path it resolves to
RequestPathname ==
  LET p == UrlPathname(request.url, request.host).pathname
  IN IF p = <<"/">> THEN <<"/", "i", "n", "d", "e", "x", ".", "h", "t", "m", "l">> ELSE p

RequestFilePath == join(docsDir, RequestPathname)

\* C21: a request whose path, resolved against the docs directory, lies
\* outside that directory is answered with status 403.
C21_OutsideRootForbidden ==
  (Answered /\ UrlRead /\ ~InsideDocs(TargetResolved)) => response.status = 403

\* C22: a 200 response carries the bytes of a regular file that lies below
\* the docs directory itself; a file of a sibling directory whose name starts
\* with the path of docs, or of any other place, is never served.
C22_OnlyFilesBelowDocsServed ==
  (Answered /\ response.status = 200)
    => \E e \in disk :
         /\ e.kind = "file"
         /\ StartsWith(e.path, docsDir \o <<"/">>)
         /\ response.body = e.bytes

\* a target with a '..' segment was answered with 200 and the bytes of
\* docs/app.js
C22_Witness ==
  /\ Answered
  /\ request.url = <<"/", "d", "a", "t", "a", "/", ".", ".", "/", "a", "p", "p", ".", "j", "s">>
  /\ response.status = 200
  /\ response.body = <<"/", "r", "e", "p", "o", "/", "d", "o", "c", "s", "/", "a", "p", "p", ".", "j", "s">>

\* the entry of the disk at the file path of the request is a regular file
RequestedIsFile == isFile(disk, RequestFilePath)

\* ... and the server may read it
RequestedIsReadable == RequestedIsFile /\ ~ReadThrows(disk, RequestFilePath)

\* the Content-Type the fixed table gives for the extension of path p
TypeByExtension(p) ==
  IF EndsWith(p, <<".", "h", "t", "m", "l">>) THEN "text/html"
  ELSE IF EndsWith(p, <<".", "c", "s", "s">>) THEN "text/css"
  ELSE IF EndsWith(p, <<".", "j", "s", "o", "n">>) THEN "application/json"
  ELSE IF EndsWith(p, <<".", "j", "s">>) THEN "application/javascript"
  ELSE IF EndsWith(p, <<".", "p", "n", "g">>) THEN "image/png"
  ELSE IF EndsWith(p, <<".", "j", "p", "g">>) THEN "image/jpeg"
  ELSE IF EndsWith(p, <<".", "s", "v", "g">>) THEN "image/svg+xml"
  ELSE IF EndsWith(p, <<".", "i", "c", "o">>) THEN "image/x-icon"
  ELSE "text/plain"

\* the 200 response with the bytes of the requested file
FileResponse ==
  [status |-> 200, contentType |-> TypeByExtension(RequestFilePath),
   cacheControl |-> "no-cache", body |-> RequestFilePath]

\* the 404 response with the fallback page
FallbackResponse ==
  [status |-> 404, contentType |-> "text/html", cacheControl |-> "",
   body |-> NotFoundPage(RequestPathname)]

C24_GetOnly ==
  (Answered /\ request.method # "GET") => response.status # 200

\* C25: every request handed to the handler ends with one response of status
\* 200, 403 or 404, and the server goes on answering.
C25_AlwaysOneResponse ==
  Answered => (response.status \in {200, 403, 404} /\ server = "listening")

(***************************************************************************)
(* The page                                                                *)
(***************************************************************************)

\* C27: once every clipboard write has ended and every pending timer of
\* showButtonSuccess has fired, each copy button shows its original markup
\* again and has no 'success' class, whatever the clicks were.
C27_CopyFeedbackUndone ==
  (copies = <<>> /\ timers = <<>>)
    => \A b \in CopyButtons : buttons[b] = [html |-> OriginalHTML, success |-> FALSE]

\* C28: whenever stack cards are rendered, window.guidesData is set and is
\* the snapshot the cards were rendered from.
C28_CardsFromGuidesData ==
  cards.state = "rendered" => (guidesData # Null /\ guidesData = cards.data)

\* the stack and the guide named by the last call are in window.guidesData
KnownStack(stackId) ==
  guidesData # Null /\ FindById(guidesData.stacks, stackId) # 0

KnownGuide(stackId, guideId) ==
  /\ KnownStack(stackId)
  /\ FindById(guidesData.stacks[FindById(guidesData.stacks, stackId)].guides,
              guideId) # 0

\* a step that calls showGuide or showStackOverview with an id that
\* window.guidesData does not hold
UnknownIdCall ==
  /\ ClickStackCard \/ ClickGuideItem \/ ClickOverviewLink
  /\ \/ /\ lastCall'.fn = "showGuide"
        /\ ~KnownGuide(lastCall'.stackId, lastCall'.guideId)
     \/ /\ lastCall'.fn = "showStackOverview"
        /\ ~KnownStack(lastCall'.stackId)

\* C29: a visible footer means an active modal that displays currentGuide,
\* a guide of currentStack; while the modal displays a stack overview
\* currentGuide is null; a call of showGuide or showStackOverview with an
\* unknown stack or guide id changes neither currentGuide, currentStack nor
\* the modal.
C29_ModalMatchesCurrentGuide ==
  /\ [](modal.footer =>
          /\ modal.active
          /\ currentGuide # Null
          /\ modal.content = GuideView(currentGuide)
          /\ \E j \in DOMAIN currentStack.guides : currentStack.guides[j] = currentGuide)
  /\ []((modal.active /\ modal.content.kind = "overview") => currentGuide = Null)
  /\ [][UnknownIdCall => UNCHANGED <<currentGuide, currentStack, modal>>]_vars
====
